---- MODULE Spec2Model ----
(***************************************************************************)
(* Pickup scanner: the scan record store (Dexie table `scans`), live       *)
(* ingestion with same-day duplicate detection, import/export, search and  *)
(* bulk verify, the camera capture engine of the Scan page with its        *)
(* stop-after-scan variant, and the dual-write and cloud-only stores over  *)
(* the Netlify function; then the Netlify function request by request,    *)
(* addScanMutation await by await, and normalizeTracking on its own.       *)
(*                                                                         *)
(* Strings are sequences of one-character strings, so that normalisation,  *)
(* trimming, splitting and substring search are computed, not assumed.     *)
(* Timestamps are milliseconds; local midnight is a multiple of DayMs.     *)
(***************************************************************************)
EXTENDS Integers, Sequences, FiniteSets

VARIABLES
    scans,                    \* db.scans: set of Scan records, ids unique
    nextId,                   \* the '++id' auto-increment counter of db.scans
    now,                      \* Date.now()
    ticks,                    \* number of clock advances so far (bounded)
    deviceName,               \* localStorage 'deviceName' ("" when unset)
    lastAttemptedTrackingRef, \* Scan page: ref, <<>> for null
    lastScanId,               \* Scan page: state, 0 for null
    toasts,                   \* pending 'Duplicate scan for today' toasts
    outcome,                  \* what the last handler reported to its caller
    forced,                   \* history: an 'Add anyway' insert has happened
    file,                     \* the last exported file (format and rows)
    importResults,            \* ImportExport page: the ImportResult shown
    updateResult,             \* List page: the last checked-toggle and its counts
    searchResults,            \* Search page: the last query and its rows
    bulkResults,              \* Search page: the last bulk input and its results
    mounted,                  \* Scan page: the component is mounted
    isScanning,               \* Scan page: state
    showScanButton,           \* Scan page: state
    selectedCameraId,         \* Scan page: state
    streamRef,                \* Scan page: ref, 0 for null, else a stream
    srcObject,                \* videoRef.current.srcObject, 0 for null
    tracks,                   \* streams whose camera track is live
    scanIntervalRef,          \* Scan page: ref, 0 for null, else an interval
    intervals,                \* active setInterval(detectBarcodes) timers
    pending,                  \* startCamera invocations at an await or timer
    inFlight,                 \* detector.detect calls awaiting their result
    engineIdle,               \* history: stopScanning returned, no start since
    nextStart,                \* startCamera invocations so far, plus one
    netlifyId,                \* dual-write store: the netlifyId of each local id
    remoteStore,              \* the records of the Netlify blob store
    nextRemoteId,             \* the next id the Netlify function hands out
    requests,                 \* the remote requests of the last store call
    mutation,                 \* the last dual-write store call and its arguments
    cloudResult,              \* cloud-only store: the last call and what it returned
    undoToasts,               \* Scan page: the 'Scanned' toasts with their Undo
    calls,                    \* List page: the update calls of mark-all-selected
    report,                   \* List page: what mark-all-selected told the user
    codeReaderRef,            \* Scan page: ref, the ZXing reader and its closure
    nativeDetector,           \* the browser has BarcodeDetector
    onloadedmetadata,         \* the handler the video element holds
    restartTimeoutRef,        \* Scan page: ref, 0 for null, else a timer
    lastResponse,             \* Netlify function: the last response it sent
    handlers,                 \* Netlify function: PUT invocations at an await
    assigned,                 \* history: the ids POST has returned so far
    answered,                 \* history: ids of a DELETE answered 200, no POST since
    ingests,                  \* Scan page: addScanMutation calls at an await
    rawInput,                 \* the string handed to normalizeTracking
    normalizedRef             \* what normalizeTracking returned for it

queryVars == <<updateResult, searchResults, bulkResults>>
captureVars == <<mounted, isScanning, showScanButton, selectedCameraId,
                 streamRef, srcObject, tracks, scanIntervalRef, intervals,
                 pending, inFlight, engineIdle, nextStart>>
dualVars == <<netlifyId, remoteStore, nextRemoteId, requests, mutation>>
otherExt == <<dualVars, cloudResult, undoToasts, calls, report>>
captureExt == <<codeReaderRef, nativeDetector, onloadedmetadata,
                restartTimeoutRef>>
functionVars == <<lastResponse, handlers, assigned, answered>>
pureVars == <<rawInput, normalizedRef>>
moreExt == <<functionVars, ingests, pureVars>>
extVars == <<otherExt, captureExt, moreExt>>
nonDualExt == <<cloudResult, undoToasts, calls, report, captureExt, moreExt>>
vars == <<scans, nextId, now, ticks, deviceName,
          lastAttemptedTrackingRef, lastScanId, toasts, outcome, forced,
          file, importResults, queryVars, captureVars, extVars>>

----------------------------------------------------------------------------
(* Bounds of the model *)

MaxScans == 2        \* records held by db.scans at once
MaxId    == 4        \* records ever inserted into db.scans
MaxTicks == 2        \* clock advances
MaxRows  == 2        \* rows of a hand-written import file
MaxStarts   == 3     \* startCamera invocations
MaxInFlight == 2     \* detect calls awaiting their result at once
MaxStored   == 6     \* records of a store handed to bulk verify
MaxMirrored == 3     \* records ever inserted into the dual-write store

(* Program constants *)

DayMs == 86400000    \* 24 * 60 * 60 * 1000

----------------------------------------------------------------------------
(* Characters and strings *)

IsWhitespace(c) == c \in {" ", "\n", "\t"}

\* String.prototype.toUpperCase on one character of the modelled alphabet
UpperChar(c) ==
    CASE c = "a" -> "A"
      [] c = "b" -> "B"
      [] c = "c" -> "C"
      [] c = "x" -> "X"
      [] OTHER   -> c

\* tracking.replace(/[\s-]/g, '') without the toUpperCase()
normalizeTracking_KeepCase(tracking) ==
    SelectSeq(tracking, LAMBDA c : ~IsWhitespace(c) /\ c # "-")

\* tracking.replace(/\s/g, '').toUpperCase(): the hyphens stay
normalizeTracking_KeepHyphen(tracking) ==
    LET kept == SelectSeq(tracking, LAMBDA c : ~IsWhitespace(c))
    IN  [i \in 1..Len(kept) |-> UpperChar(kept[i])]

\* tracking.replace(/[\s-]/g, '').toUpperCase()
normalizeTracking(tracking) ==
    LET kept == SelectSeq(tracking, LAMBDA c : ~IsWhitespace(c) /\ c # "-")
    IN  [i \in 1..Len(kept) |-> UpperChar(kept[i])]

RECURSIVE TrimStart(_)
TrimStart(s) ==
    IF s # <<>> /\ IsWhitespace(Head(s)) THEN TrimStart(Tail(s)) ELSE s

RECURSIVE TrimEnd(_)
TrimEnd(s) ==
    IF s # <<>> /\ IsWhitespace(s[Len(s)])
    THEN TrimEnd(SubSeq(s, 1, Len(s) - 1)) ELSE s

\* String.prototype.trim
Trim(s) == TrimEnd(TrimStart(s))

\* String.prototype.includes
Includes(s, t) ==
    \E i \in 0..(Len(s) - Len(t)) : SubSeq(s, i + 1, i + Len(t)) = t

----------------------------------------------------------------------------
(* Local calendar day, as checkDuplicateToday computes it *)

\* new Date(y, m, d).getTime(): local midnight of the day holding t
StartOfDay(t) == t - (t % DayMs)

----------------------------------------------------------------------------
(* The record store: scanOperations over the Dexie table db.scans *)

ScanIds == {s.id : s \in scans}

Take(seq, n) == SubSeq(seq, 1, IF Len(seq) < n THEN Len(seq) ELSE n)

\* Order of the 'timestamp' index: by timestamp, then by primary key
ByTimestamp(a, b) ==
    a.timestamp < b.timestamp \/ (a.timestamp = b.timestamp /\ a.id < b.id)

\* The table walked along the 'timestamp' index, reversed
RECURSIVE DescByTimestamp(_)
DescByTimestamp(S) ==
    IF S = {} THEN <<>>
    ELSE LET m == CHOOSE x \in S : \A y \in S : y = x \/ ByTimestamp(y, x)
         IN  <<m>> \o DescByTimestamp(S \ {m})

\* The table walked along the primary key, reversed
RECURSIVE DescById(_)
DescById(S) ==
    IF S = {} THEN <<>>
    ELSE LET m == CHOOSE x \in S : \A y \in S : y.id <= x.id
         IN  <<m>> \o DescById(S \ {m})

\* db.scans.add(scan): the new table, '++id' assigns the next key
addScan(table, id, scan) ==
    table \cup {[id |-> id, tracking |-> scan.tracking,
                 timestamp |-> scan.timestamp,
                 deviceName |-> scan.deviceName, checked |-> scan.checked]}

\* db.scans.orderBy('timestamp').reverse().toArray()
getAllScans(table) == DescByTimestamp(table)

\* db.scans.filter(...).reverse().limit(limit).toArray():
\* a filtered table is walked by primary key, reversed
searchScans(table, term, limit) ==
    LET normalizedTerm == normalizeTracking(term)
        hits == {s \in table : Includes(s.tracking, normalizedTerm)}
    IN  Take(DescById(hits), limit)

\* where('tracking').equals(tracking).first(), whatever the day
checkDuplicateToday_AnyDay(table, tracking, today) ==
    LET hits == {s \in table : s.tracking = tracking}
    IN  IF hits = {} THEN <<>>
        ELSE <<CHOOSE s \in hits : \A o \in hits : s.id <= o.id>>

\* where('tracking').equals(tracking).and(today).first():
\* the matches, as a sequence of at most one scan (<<>> for undefined)
checkDuplicateToday(table, tracking, today) ==
    LET startOfDay == StartOfDay(today)
        endOfDay   == startOfDay + 24 * 60 * 60 * 1000 - 1
        hits == {s \in table : /\ s.tracking = tracking
                               /\ s.timestamp >= startOfDay
                               /\ s.timestamp <= endOfDay}
    IN  IF hits = {} THEN <<>>
        ELSE <<CHOOSE s \in hits : \A o \in hits : s.id <= o.id>>

\* where('tracking').equals(tracking).first()
getScanByTracking(table, tracking) ==
    LET hits == {s \in table : s.tracking = tracking}
    IN  IF hits = {} THEN <<>>
        ELSE <<CHOOSE s \in hits : \A o \in hits : s.id <= o.id>>

\* db.scans.update whose change reaches every record of the table
updateScanChecked_AllRows(table, id, checked) ==
    LET hit == {s \in table : s.checked # checked}
    IN  [table |-> {[s EXCEPT !.checked = checked] : s \in table},
         count |-> Cardinality(hit)]

\* db.scans.update(id, { checked }): the new table and Dexie's count of
\* modified records: 1 when a record changed, 0 when the key is unknown
\* or the record already held the value
updateScanChecked(table, id, checked) ==
    LET hit == {s \in table : s.id = id /\ s.checked # checked}
    IN  [table |-> {IF s \in hit THEN [s EXCEPT !.checked = checked] ELSE s
                    : s \in table},
         count |-> Cardinality(hit)]

\* db.scans.bulkDelete(ids)
deleteScans(table, ids) == {s \in table : s.id \notin ids}

\* importScans: each candidate through checkDuplicateToday, then addScan
RECURSIVE importScans(_, _, _, _)
importScans(table, id, candidates, today) ==
    IF candidates = <<>>
    THEN [table |-> table, nextId |-> id, imported |-> 0, skipped |-> 0]
    ELSE LET scan     == Head(candidates)
             existing == checkDuplicateToday(table, scan.tracking, today)
         IN  IF existing # <<>>
             THEN LET r == importScans(table, id, Tail(candidates), today)
                  IN  [r EXCEPT !.skipped = @ + 1]
             ELSE LET r == importScans(addScan(table, id, scan), id + 1,
                                       Tail(candidates), today)
                  IN  [r EXCEPT !.imported = @ + 1]

----------------------------------------------------------------------------
(* Values of a parsed file: a JSON value or a CSV cell after Papa.parse *)

Undefined  == [t |-> "undefined", s |-> <<>>, n |-> 0, b |-> FALSE]
StrVal(s)  == [t |-> "string", s |-> s, n |-> 0, b |-> FALSE]
NumVal(n)  == [t |-> "number", s |-> <<>>, n |-> n, b |-> FALSE]
BoolVal(b) == [t |-> "boolean", s |-> <<>>, n |-> 0, b |-> b]

\* JavaScript truthiness
Truthy(v) ==
    CASE v.t = "string"  -> v.s # <<>>
      [] v.t = "number"  -> v.n # 0
      [] v.t = "boolean" -> v.b
      [] OTHER           -> FALSE

Digits == <<"0", "1", "2", "3", "4", "5", "6", "7", "8", "9">>

IsDigit(c) == \E i \in 1..10 : Digits[i] = c

DigitValue(c) == (CHOOSE i \in 1..10 : Digits[i] = c) - 1

\* Number.prototype.toString of a natural number
RECURSIVE NumberToString(_)
NumberToString(n) ==
    IF n < 10 THEN <<Digits[n + 1]>>
    ELSE NumberToString(n \div 10) \o <<Digits[(n % 10) + 1]>>

RECURSIVE LeadingDigits(_)
LeadingDigits(s) ==
    IF s # <<>> /\ IsDigit(Head(s))
    THEN <<Head(s)>> \o LeadingDigits(Tail(s)) ELSE <<>>

RECURSIVE DigitsValue(_)
DigitsValue(ds) ==
    IF ds = <<>> THEN 0
    ELSE 10 * DigitsValue(SubSeq(ds, 1, Len(ds) - 1)) + DigitValue(ds[Len(ds)])

\* parseInt(s, 10) of an unsigned string: leading whitespace skipped, the
\* leading digits read, NaN when there are none
parseInt(s) ==
    LET ds == LeadingDigits(TrimStart(s))
    IN  [isNaN |-> ds = <<>>, n |-> DigitsValue(ds)]

\* String.prototype.toLowerCase on one character of the literals used
LowerChar(c) ==
    CASE c = "T" -> "t"
      [] c = "R" -> "r"
      [] c = "U" -> "u"
      [] c = "E" -> "e"
      [] OTHER   -> c

ToLowerCase(s) == [i \in 1..Len(s) |-> LowerChar(s[i])]

True  == <<"t", "r", "u", "e">>
False == <<"f", "a", "l", "s", "e">>

\* formatDate / formatTime: the display strings of a timestamp, the day and
\* the minute of the day written in decimal (the en-US layout abstracted)
formatDate(timestamp) == NumberToString(timestamp \div DayMs)
formatTime(timestamp) == NumberToString((timestamp % DayMs) \div 60000)

\* new Date(`${date} ${time}`).getTime()
DateTimeParse(date, time) ==
    LET d == parseInt(date)
        m == parseInt(time)
    IN  [isNaN |-> d.isNaN \/ m.isNaN \/ Len(LeadingDigits(date)) # Len(date)
                   \/ Len(LeadingDigits(time)) # Len(time),
         n |-> d.n * DayMs + m.n * 60000]

----------------------------------------------------------------------------
(* Import: validateAndNormalizeScan, parseCSV, parseJSON *)

Unknown == <<"U", "n", "k", "n", "o", "w", "n">>

\* The result {scan, error}: scan is <<>> for null, errors lists the
\* failed validations of the row
validateAndNormalizeScan(data, rowIndex, dateNow) ==
    LET trackingBad ==
            \/ ~Truthy(data.tracking)
            \/ data.tracking.t # "string"
            \/ Trim(data.tracking.s) = <<>>
        asInt  == parseInt(data.timestamp.s)
        asDate == DateTimeParse(data.date.s, data.time.s)
        timestampBad ==
            CASE data.timestamp.t = "number" -> FALSE
              [] data.timestamp.t = "string" -> asInt.isNaN
              [] OTHER -> /\ Truthy(data.date) /\ Truthy(data.time)
                          /\ data.date.t = "string" /\ data.time.t = "string"
                          /\ asDate.isNaN
        timestamp ==
            CASE data.timestamp.t = "number" -> data.timestamp.n
              [] data.timestamp.t = "string" ->
                    IF asInt.isNaN THEN dateNow ELSE asInt.n
              [] OTHER ->
                    IF /\ Truthy(data.date) /\ Truthy(data.time)
                       /\ data.date.t = "string" /\ data.time.t = "string"
                       /\ ~asDate.isNaN
                    THEN asDate.n ELSE dateNow
        checked ==
            CASE data.checked.t = "boolean" -> data.checked.b
              [] data.checked.t = "string"  ->
                    ToLowerCase(data.checked.s) = True
              [] OTHER -> FALSE
        name ==
            IF Truthy(data.deviceName) /\ data.deviceName.t = "string"
            THEN Trim(data.deviceName.s) ELSE Unknown
        errors ==
            (IF trackingBad THEN <<[row |-> rowIndex, what |-> "tracking"]>>
             ELSE <<>>)
            \o (IF timestampBad
                THEN <<[row |-> rowIndex, what |-> "timestamp"]>> ELSE <<>>)
    IN  IF errors # <<>>
        THEN [scan |-> <<>>, error |-> errors]
        ELSE [scan |-> <<[tracking |-> normalizeTracking(data.tracking.s),
                          timestamp |-> timestamp, checked |-> checked,
                          deviceName |-> name]>>,
              error |-> <<>>]

\* results.data.forEach / scansArray.forEach over the rows from `index` on
RECURSIVE ValidateRows(_, _, _, _)
ValidateRows(rows, index, firstRow, dateNow) ==
    IF index > Len(rows)
    THEN [imported |-> 0, skipped |-> 0, errors |-> <<>>, scans |-> <<>>]
    ELSE LET v    == validateAndNormalizeScan(rows[index], index - 1 + firstRow,
                                              dateNow)
             rest == ValidateRows(rows, index + 1, firstRow, dateNow)
         IN  IF v.error # <<>>
             THEN [rest EXCEPT !.errors = <<v.error>> \o @,
                               !.skipped = @ + 1]
             ELSE [rest EXCEPT !.scans = v.scan \o @, !.imported = @ + 1]

ParseResult(rows, firstRow, dateNow) ==
    LET r == ValidateRows(rows, 1, firstRow, dateNow)
    IN  [result |-> [success |-> r.imported > 0 /\ r.errors = <<>>,
                     imported |-> r.imported, skipped |-> r.skipped,
                     errors |-> r.errors, totalRows |-> Len(rows)],
         scans |-> r.scans]

\* Papa.parse of one cell: a cell opening with a quote runs to the next quote
PapaCell(cell) ==
    IF cell # <<>> /\ Head(cell) = "\""
    THEN LET body == Tail(cell)
             close == IF \E i \in 1..Len(body) : body[i] = "\""
                      THEN CHOOSE i \in 1..Len(body) :
                               /\ body[i] = "\""
                               /\ \A j \in 1..(i - 1) : body[j] # "\""
                      ELSE Len(body) + 1
         IN  SubSeq(body, 1, close - 1)
    ELSE cell

\* Papa.parse(csvContent, {header: true}): each line an object of strings
\* keyed by the header tracking,timestamp,date,time,checked,deviceName
PapaParse(lines) ==
    [i \in 1..Len(lines) |->
        [tracking   |-> StrVal(PapaCell(lines[i][1])),
         timestamp  |-> StrVal(PapaCell(lines[i][2])),
         date       |-> StrVal(PapaCell(lines[i][3])),
         time       |-> StrVal(PapaCell(lines[i][4])),
         checked    |-> StrVal(PapaCell(lines[i][5])),
         deviceName |-> StrVal(PapaCell(lines[i][6]))]]

\* parseCSV: the header is row 1
parseCSV(lines, dateNow) == ParseResult(PapaParse(lines), 2, dateNow)

\* parseJSON of { ..., scans: [...] } or of a bare array
parseJSON(scansArray, dateNow) == ParseResult(scansArray, 1, dateNow)

\* importFromFile: by extension
importFromFile(f, dateNow) ==
    IF f.format = "csv" THEN parseCSV(f.rows, dateNow)
    ELSE parseJSON(f.rows, dateNow)

----------------------------------------------------------------------------
(* Export: exportToCSV, exportToJSON *)

Quoted(s) == <<"\"">> \o s \o <<"\"">>

\* exportToCSV: the lines after the header, each as its six cells
exportToCSV(list) ==
    [i \in 1..Len(list) |->
        << Quoted(list[i].tracking),
           NumberToString(list[i].timestamp),
           Quoted(formatDate(list[i].timestamp)),
           Quoted(formatTime(list[i].timestamp)),
           IF list[i].checked THEN True ELSE False,
           Quoted(list[i].deviceName) >>]

\* exportToJSON: the scans array of the export object
exportToJSON(list) ==
    [i \in 1..Len(list) |->
        [tracking   |-> StrVal(list[i].tracking),
         timestamp  |-> NumVal(list[i].timestamp),
         date       |-> StrVal(formatDate(list[i].timestamp)),
         time       |-> StrVal(formatTime(list[i].timestamp)),
         checked    |-> BoolVal(list[i].checked),
         deviceName |-> StrVal(list[i].deviceName)]]

----------------------------------------------------------------------------
(* Inputs *)

InitialNow == 2 * DayMs - 60001

\* One millisecond, one minute, 25 hours
TickSteps == {1, 60000, 25 * 3600 * 1000}

\* What a user types into the manual field or a decoder reads off a label
RawCodes == { <<"a", "b">>, <<"A", "-", "b">>, <<"b">>, <<"-">> }

\* What a user types into the manual field
ManualTexts == { <<" ", "b", " ">>, <<"-", " ">> }

DeviceNames == { <<>>, <<" ", "x">> }

\* The labels scanned between an export and its import
RoundTripCodes == { <<"A", "-", "b">>, <<"b">> }

UnknownDevice ==
    <<"U", "n", "k", "n", "o", "w", "n", " ", "D", "e", "v", "i", "c", "e">>

NoOutcome == [op |-> "none", result |-> "none"]

Outcome(op, result) == [op |-> op, result |-> result]

----------------------------------------------------------------------------
(* Scan page, each handler run to completion.  The content of the manual  *)
(* text field (the manualInput state) is an input of the handlers that    *)
(* read it.                                                                *)

\* localStorage.getItem('deviceName') || 'Unknown Device'
getDeviceName == IF deviceName # <<>> THEN deviceName ELSE UnknownDevice

\* addScanMutation: mutationFn, then onSuccess or onError
addScanMutation(tracking) ==
    LET normalized == normalizeTracking(tracking)
        duplicate  == checkDuplicateToday(scans, normalized, now)
    IN  /\ lastAttemptedTrackingRef' = normalized
        /\ IF duplicate # <<>>
           THEN \* throw new Error('DUPLICATE'); onError: 'Add anyway' toast
                /\ toasts' = toasts \cup {normalized}
                /\ outcome' = Outcome("ingest", "DUPLICATE")
                /\ UNCHANGED <<scans, nextId, lastScanId>>
           ELSE \* addScan; onSuccess: setLastScanId(scanId)
                /\ Cardinality(scans) < MaxScans /\ nextId <= MaxId
                /\ scans' = addScan(scans, nextId,
                                [tracking |-> normalized, timestamp |-> now,
                                 deviceName |-> getDeviceName,
                                 checked |-> FALSE])
                /\ nextId' = nextId + 1
                /\ lastScanId' = nextId
                /\ outcome' = Outcome("ingest", "saved")
                /\ UNCHANGED toasts

\* handleManualSubmit, manualInput being the text typed
handleManualSubmit(manualInput) ==
    /\ Trim(manualInput) # <<>>
    /\ addScanMutation(Trim(manualInput))
    /\ UNCHANGED <<now, ticks, deviceName, forced, file, importResults>>
    /\ UNCHANGED <<queryVars, captureVars, extVars>>

\* A decoder hands a non-empty rawValue to addScanMutation.mutate
BarcodeDetected(rawValue) ==
    /\ rawValue # <<>>
    /\ addScanMutation(rawValue)
    /\ UNCHANGED <<now, ticks, deviceName, forced, file, importResults>>
    /\ UNCHANGED <<queryVars, captureVars, extVars>>

\* addDuplicateScan, from the 'Add anyway' action of the duplicate toast
\* shown for `code`; manualInput is the text field as the toast's closure
\* holds it
addDuplicateScan(code, manualInput) ==
    LET tracking == IF lastAttemptedTrackingRef # <<>>
                    THEN lastAttemptedTrackingRef
                    ELSE manualInput
    IN  /\ code \in toasts
        /\ toasts' = toasts \ {code}
        /\ IF Trim(tracking) # <<>>
           THEN /\ Cardinality(scans) < MaxScans /\ nextId <= MaxId
                /\ scans' = addScan(scans, nextId,
                                [tracking |-> normalizeTracking(tracking),
                                 timestamp |-> now,
                                 deviceName |-> getDeviceName,
                                 checked |-> FALSE])
                /\ nextId' = nextId + 1
                /\ lastScanId' = nextId
                /\ forced' = TRUE
                /\ outcome' = Outcome("force", "saved")
           ELSE /\ outcome' = Outcome("force", "nothing")
                /\ UNCHANGED <<scans, nextId, lastScanId, forced>>
        /\ UNCHANGED <<now, ticks, deviceName, lastAttemptedTrackingRef,
                       file, importResults>>
        /\ UNCHANGED <<queryVars, captureVars, extVars>>

\* A duplicate toast leaves the screen unused
DismissToast(code) ==
    /\ code \in toasts
    /\ toasts' = toasts \ {code}
    /\ UNCHANGED <<scans, nextId, now, ticks, deviceName,
                   lastAttemptedTrackingRef, lastScanId, outcome, forced,
                   file, importResults>>
    /\ UNCHANGED <<queryVars, captureVars, extVars>>

\* Time passes
Tick(d) ==
    /\ ticks < MaxTicks
    /\ now' = now + d
    /\ ticks' = ticks + 1
    /\ UNCHANGED <<scans, nextId, deviceName,
                   lastAttemptedTrackingRef, lastScanId, toasts, outcome,
                   forced, file, importResults>>
    /\ UNCHANGED <<queryVars, captureVars, extVars>>

\* Settings page: saveDeviceName
saveDeviceName(name) ==
    /\ deviceName' = Trim(name)
    /\ deviceName' # deviceName
    /\ UNCHANGED <<scans, nextId, now, ticks,
                   lastAttemptedTrackingRef, lastScanId, toasts, outcome,
                   forced, file, importResults>>
    /\ UNCHANGED <<queryVars, captureVars, extVars>>

----------------------------------------------------------------------------
(* ImportExport and Settings pages *)

NoFile == [format |-> "none", rows |-> <<>>, source |-> <<>>]

NoImportResults ==
    [success |-> FALSE, imported |-> 0, skipped |-> 0, errors |-> <<>>,
     totalRows |-> 0]

\* importScans when the parse counted a valid row
StoreParsed(parsed) ==
    IF parsed.result.imported > 0
    THEN importScans(scans, nextId, parsed.scans, now)
    ELSE [table |-> scans, nextId |-> nextId, imported |-> 0, skipped |-> 0]

\* importMutation: mutationFn (validation passed), then onSuccess
importMutation(f) ==
    /\ f.format \in {"csv", "json"}
    /\ \E parsed \in {importFromFile(f, now)} :
       \E stored \in {StoreParsed(parsed)} :
        /\ Cardinality(stored.table) <= MaxScans
        /\ stored.nextId <= MaxId + 1
        /\ scans' = stored.table
        /\ nextId' = stored.nextId
        /\ importResults' = parsed.result
    /\ outcome' = Outcome("import", "done")
    /\ UNCHANGED <<now, ticks, deviceName, lastAttemptedTrackingRef,
                   lastScanId, toasts, forced, file>>
    /\ UNCHANGED <<queryVars, captureVars, extVars>>

\* handleExportCSV: allScans is the getAllScans query; `source` records
\* what was exported
handleExportCSV ==
    LET allScans == getAllScans(scans)
    IN  /\ Len(allScans) # 0
        /\ file' = [format |-> "csv", rows |-> exportToCSV(allScans),
                    source |-> allScans]
        /\ outcome' = Outcome("export", "done")
        /\ UNCHANGED <<scans, nextId, now, ticks, deviceName,
                       lastAttemptedTrackingRef, lastScanId, toasts, forced,
                       importResults>>
        /\ UNCHANGED <<queryVars, captureVars, extVars>>

\* handleExportJSON
handleExportJSON ==
    LET allScans == getAllScans(scans)
    IN  /\ Len(allScans) # 0
        /\ file' = [format |-> "json", rows |-> exportToJSON(allScans),
                    source |-> allScans]
        /\ outcome' = Outcome("export", "done")
        /\ UNCHANGED <<scans, nextId, now, ticks, deviceName,
                       lastAttemptedTrackingRef, lastScanId, toasts, forced,
                       importResults>>
        /\ UNCHANGED <<queryVars, captureVars, extVars>>

\* dbUtils.clearDatabase: db.scans.clear() keeps the key generator
clearDatabase ==
    /\ scans # {}
    /\ scans' = {}
    /\ outcome' = Outcome("clear", "done")
    /\ UNCHANGED <<nextId, now, ticks, deviceName, lastAttemptedTrackingRef,
                   lastScanId, toasts, forced, file, importResults>>
    /\ UNCHANGED <<queryVars, captureVars, extVars>>

----------------------------------------------------------------------------
(* Scan page: the capture engine.  The browser grants the camera, unless   *)
(* it rejects the constraints of a request, and has BarcodeDetector or     *)
(* has not (nativeDetector).  A startCamera invocation is a record         *)
(* [id, pc, scanning, camera]: pc is the await or timer it is parked at,   *)
(* scanning and camera are the isScanning and selectedCameraId its         *)
(* closures captured at the render that created them; the stream it        *)
(* obtains is named by its id.                                             *)

Cameras == {1, 2}

\* What a decoder reads off the label in front of the camera
CaptureCodes == { <<"A", "-", "b">> }

Parked(id, pc, scanning, camera) ==
    [id |-> id, pc |-> pc, scanning |-> scanning, camera |-> camera]

\* No ZXing reader, no onloadedmetadata handler
NoReader == [id |-> 0, scanning |-> FALSE]

NoHandler == Parked(0, "metadata", FALSE, 0)

\* The state of the pages and stores that the capture engine leaves alone
restVars == <<scans, nextId, now, ticks, deviceName,
              lastAttemptedTrackingRef, lastScanId, toasts, outcome,
              forced, file, importResults, queryVars, otherExt,
              nativeDetector, moreExt>>

\* The video element has dimensions: a stream is attached and its
\* metadata has loaded
VideoReady ==
    srcObject # 0 /\ ~\E q \in pending : q.pc = "metadata"

\* stopScanning but for restartTimeoutRef.current = null; `done` are the
\* invocations that end with the caller, `later` those it parks afterwards.  With srcObject cleared, no
\* loadedmetadata event is delivered any more and a pending play() is
\* rejected; the timer held by restartTimeoutRef is cleared.
StopEffects(done, later) ==
    /\ isScanning' = FALSE
    /\ intervals' = {i \in intervals : i.id # scanIntervalRef}
    /\ scanIntervalRef' = 0
    /\ codeReaderRef' = NoReader
    /\ tracks' = tracks \ {streamRef}
    /\ streamRef' = 0
    /\ srcObject' = 0
    /\ pending' = {q \in pending \ done :
                      /\ q.pc \notin {"metadata", "retryPlay", "play"}
                      /\ ~(q.pc = "restart" /\ q.id = restartTimeoutRef)}
                  \cup later
    /\ engineIdle' = TRUE

\* stopScanning
stopScanning(later) ==
    /\ StopEffects({}, later)
    /\ restartTimeoutRef' = 0

\* startCamera up to `await navigator.mediaDevices.getUserMedia`, the
\* constraints naming the selectedCameraId of the render
startCamera(scanning) ==
    /\ nextStart <= MaxStarts
    /\ pending' = pending \cup {Parked(nextStart, "getUserMedia", scanning,
                                       selectedCameraId)}
    /\ nextStart' = nextStart + 1
    /\ engineIdle' = FALSE

\* The 'Start camera' overlay button, shown while !isScanning
ClickStart ==
    /\ mounted /\ ~isScanning
    /\ startCamera(isScanning)
    /\ UNCHANGED <<mounted, isScanning, showScanButton, selectedCameraId,
                   streamRef, srcObject, tracks, scanIntervalRef, intervals,
                   inFlight, codeReaderRef, onloadedmetadata,
                   restartTimeoutRef>>
    /\ UNCHANGED restVars

\* The 'Scan Next' button, shown while showScanButton
ClickScanNext ==
    /\ mounted /\ showScanButton
    /\ showScanButton' = FALSE
    /\ startCamera(isScanning)
    /\ UNCHANGED <<mounted, isScanning, selectedCameraId,
                   streamRef, srcObject, tracks, scanIntervalRef, intervals,
                   inFlight, codeReaderRef, onloadedmetadata,
                   restartTimeoutRef>>
    /\ UNCHANGED restVars

\* The 'Stop scanning' button, shown while isScanning
ClickStop ==
    /\ mounted /\ isScanning
    /\ stopScanning({})
    /\ UNCHANGED <<mounted, showScanButton, selectedCameraId, inFlight,
                   nextStart, onloadedmetadata>>
    /\ UNCHANGED restVars

\* The 'Restart camera' button, shown while isScanning:
\* stopScanning(); setTimeout(startCamera, 100)
ClickRestart ==
    /\ mounted /\ isScanning
    /\ nextStart <= MaxStarts
    /\ stopScanning({Parked(nextStart, "delay", isScanning,
                            selectedCameraId)})
    /\ nextStart' = nextStart + 1
    /\ UNCHANGED <<mounted, showScanButton, selectedCameraId, inFlight,
                   onloadedmetadata>>
    /\ UNCHANGED restVars

\* switchCamera, its button shown while isScanning; two cameras are listed.
\* setSelectedCameraId(nextId); stopScanning(); setTimeout(startCamera, 100)
\* with the startCamera of the render that drew the button
switchCamera ==
    /\ mounted /\ isScanning
    /\ nextStart <= MaxStarts
    /\ selectedCameraId' = CHOOSE c \in Cameras : c # selectedCameraId
    /\ stopScanning({Parked(nextStart, "delay", isScanning,
                            selectedCameraId)})
    /\ nextStart' = nextStart + 1
    /\ UNCHANGED <<mounted, showScanButton, inFlight, onloadedmetadata>>
    /\ UNCHANGED restVars

\* The timer of setTimeout(startCamera, 100) fires
RestartTimer(p) ==
    /\ p \in pending /\ p.pc = "delay"
    /\ pending' = (pending \ {p})
                  \cup {Parked(p.id, "getUserMedia", p.scanning, p.camera)}
    /\ engineIdle' = FALSE
    /\ UNCHANGED <<mounted, isScanning, showScanButton, selectedCameraId,
                   streamRef, srcObject, tracks, scanIntervalRef, intervals,
                   inFlight, nextStart, codeReaderRef, onloadedmetadata,
                   restartTimeoutRef>>
    /\ UNCHANGED restVars

\* getUserMedia resolves: streamRef.current = stream, then the video element
\* takes it and a new onloadedmetadata handler, or is not there
StreamObtained(p) ==
    /\ p \in pending /\ p.pc = "getUserMedia"
    /\ tracks' = tracks \cup {p.id}
    /\ streamRef' = p.id
    /\ IF mounted
       THEN /\ srcObject' = p.id
            /\ onloadedmetadata' = Parked(p.id, "metadata", p.scanning,
                                          p.camera)
            /\ pending' = {q \in pending \ {p} : q.pc # "metadata"}
                          \cup {Parked(p.id, "metadata", p.scanning,
                                       p.camera)}
       ELSE /\ pending' = pending \ {p}
            /\ UNCHANGED <<srcObject, onloadedmetadata>>
    /\ UNCHANGED <<mounted, isScanning, showScanButton, selectedCameraId,
                   scanIntervalRef, intervals, inFlight, engineIdle,
                   nextStart, codeReaderRef, restartTimeoutRef>>
    /\ UNCHANGED restVars

\* getUserMedia rejects with OverconstrainedError: the catch block asks
\* again with { video: true }
Overconstrained(p) ==
    /\ p \in pending /\ p.pc = "getUserMedia"
    /\ pending' = (pending \ {p})
                  \cup {Parked(p.id, "retry", p.scanning, p.camera)}
    /\ UNCHANGED <<mounted, isScanning, showScanButton, selectedCameraId,
                   streamRef, srcObject, tracks, scanIntervalRef, intervals,
                   inFlight, engineIdle, nextStart, codeReaderRef,
                   onloadedmetadata, restartTimeoutRef>>
    /\ UNCHANGED restVars

\* The retry resolves: streamRef.current = simpleStream, then the video
\* element takes it, up to `await videoRef.current.play()`.  The element
\* keeps the onloadedmetadata handler an earlier start gave it, and that
\* handler is run for the new stream.
RetryObtained(p) ==
    /\ p \in pending /\ p.pc = "retry"
    /\ tracks' = tracks \cup {p.id}
    /\ streamRef' = p.id
    /\ IF mounted
       THEN /\ srcObject' = p.id
            /\ pending' =
                  {q \in pending \ {p} : q.pc # "metadata"}
                  \cup {Parked(p.id, "retryPlay", p.scanning, p.camera)}
                  \cup (IF onloadedmetadata.id # 0
                        THEN {onloadedmetadata} ELSE {})
       ELSE /\ pending' = pending \ {p}
            /\ UNCHANGED srcObject
    /\ UNCHANGED <<mounted, isScanning, showScanButton, selectedCameraId,
                   scanIntervalRef, intervals, inFlight, engineIdle,
                   nextStart, codeReaderRef, onloadedmetadata,
                   restartTimeoutRef>>
    /\ UNCHANGED restVars

\* The play() of the retry resolves: setIsScanning(true), setCameraError(null)
RetryPlaying(p) ==
    /\ p \in pending /\ p.pc = "retryPlay"
    /\ mounted
    /\ isScanning' = TRUE
    /\ pending' = pending \ {p}
    /\ UNCHANGED <<mounted, showScanButton, selectedCameraId, streamRef,
                   srcObject, tracks, scanIntervalRef, intervals, inFlight,
                   engineIdle, nextStart, codeReaderRef, onloadedmetadata,
                   restartTimeoutRef>>
    /\ UNCHANGED restVars

\* onloadedmetadata: play, setIsScanning(true), setTimeout(..., 500)
LoadedMetadata(p) ==
    /\ p \in pending /\ p.pc = "metadata"
    /\ mounted
    /\ isScanning' = TRUE
    /\ pending' = (pending \ {p})
                  \cup {Parked(p.id, "timer", p.scanning, p.camera)}
    /\ UNCHANGED <<mounted, showScanButton, selectedCameraId, streamRef,
                   srcObject, tracks, scanIntervalRef, intervals, inFlight,
                   engineIdle, nextStart, codeReaderRef, onloadedmetadata,
                   restartTimeoutRef>>
    /\ UNCHANGED restVars

\* The 500 ms timer: initBarcodeDetector, startBarcodeDetection.  Without a
\* video element it returns; without dimensions it retries 100 ms later;
\* else scanIntervalRef.current = setInterval(detectBarcodes, 100)
startBarcodeDetection(p) ==
    /\ p \in pending /\ p.pc = "timer"
    /\ nativeDetector
    /\ ~mounted \/ VideoReady
    /\ pending' = pending \ {p}
    /\ IF mounted
       THEN /\ intervals' = intervals \cup {[id |-> p.id,
                                            scanning |-> p.scanning]}
            /\ scanIntervalRef' = p.id
       ELSE UNCHANGED <<intervals, scanIntervalRef>>
    /\ UNCHANGED <<mounted, isScanning, showScanButton, selectedCameraId,
                   streamRef, srcObject, tracks, inFlight, engineIdle,
                   nextStart, codeReaderRef, onloadedmetadata,
                   restartTimeoutRef>>
    /\ UNCHANGED restVars

\* The 500 ms timer when initBarcodeDetector returns false:
\* startZXingDetection.  Without a video element it returns; without
\* dimensions it retries 100 ms later; else codeReaderRef.current is a new
\* reader decoding the video element into handleResult
startZXingDetection(p) ==
    /\ p \in pending /\ p.pc = "timer"
    /\ ~nativeDetector
    /\ ~mounted \/ VideoReady
    /\ pending' = pending \ {p}
    /\ codeReaderRef' = IF mounted
                        THEN [id |-> p.id, scanning |-> p.scanning]
                        ELSE codeReaderRef
    /\ UNCHANGED <<mounted, isScanning, showScanButton, selectedCameraId,
                   streamRef, srcObject, tracks, scanIntervalRef, intervals,
                   inFlight, engineIdle, nextStart, onloadedmetadata,
                   restartTimeoutRef>>
    /\ UNCHANGED restVars

\* An interval tick, detectBarcodes up to `await detector.detect`: the
\* guard reads the isScanning of the closure; a frame is there to decode
\* while the video has a stream
detectBarcodes(i) ==
    /\ i \in intervals
    /\ i.scanning
    /\ srcObject # 0
    /\ inFlight < MaxInFlight
    /\ inFlight' = inFlight + 1
    /\ UNCHANGED <<mounted, isScanning, showScanButton, selectedCameraId,
                   streamRef, srcObject, tracks, scanIntervalRef, intervals,
                   pending, engineIdle, nextStart, codeReaderRef,
                   onloadedmetadata, restartTimeoutRef>>
    /\ UNCHANGED restVars

\* The ZXing reader takes a frame of the video element to decode
ZXingDecode ==
    /\ codeReaderRef.id # 0
    /\ srcObject # 0
    /\ inFlight < MaxInFlight
    /\ inFlight' = inFlight + 1
    /\ UNCHANGED <<mounted, isScanning, showScanButton, selectedCameraId,
                   streamRef, srcObject, tracks, scanIntervalRef, intervals,
                   pending, engineIdle, nextStart, codeReaderRef,
                   onloadedmetadata, restartTimeoutRef>>
    /\ UNCHANGED restVars

\* A decode attempt of either decoder ends with no barcode
DetectedNothing ==
    /\ inFlight > 0
    /\ inFlight' = inFlight - 1
    /\ UNCHANGED <<mounted, isScanning, showScanButton, selectedCameraId,
                   streamRef, srcObject, tracks, scanIntervalRef, intervals,
                   pending, engineIdle, nextStart, codeReaderRef,
                   onloadedmetadata, restartTimeoutRef>>
    /\ UNCHANGED restVars

\* detector.detect resolves with a barcode: addScanMutation.mutate,
\* stopScanning, setShowScanButton(true)
DetectedBarcode(rawValue) ==
    /\ nativeDetector
    /\ inFlight > 0
    /\ inFlight' = inFlight - 1
    /\ rawValue # <<>>
    /\ addScanMutation(rawValue)
    /\ stopScanning({})
    /\ showScanButton' = (mounted \/ showScanButton)
    /\ UNCHANGED <<mounted, selectedCameraId, nextStart, onloadedmetadata>>
    /\ UNCHANGED <<now, ticks, deviceName, forced, file, importResults,
                   queryVars, otherExt, nativeDetector,
                   moreExt>>

\* The ZXing reader calls handleResult with a result: the guard reads the
\* isScanning of the closure, then addScanMutation.mutate, stopScanning,
\* setShowScanButton(true)
handleResult(rawValue) ==
    /\ codeReaderRef.id # 0
    /\ inFlight > 0
    /\ inFlight' = inFlight - 1
    /\ rawValue # <<>>
    /\ IF codeReaderRef.scanning
       THEN /\ addScanMutation(rawValue)
            /\ stopScanning({})
            /\ showScanButton' = (mounted \/ showScanButton)
       ELSE UNCHANGED <<scans, nextId, lastAttemptedTrackingRef, lastScanId,
                        toasts, outcome, isScanning, intervals,
                        scanIntervalRef, codeReaderRef, tracks, streamRef,
                        srcObject, pending, engineIdle, restartTimeoutRef,
                        showScanButton>>
    /\ UNCHANGED <<mounted, selectedCameraId, nextStart, onloadedmetadata>>
    /\ UNCHANGED <<now, ticks, deviceName, forced, file, importResults,
                   queryVars, otherExt, nativeDetector,
                   moreExt>>

\* The page is left: the effect cleanup runs stopScanning, the video
\* element is gone
Unmount ==
    /\ mounted
    /\ mounted' = FALSE
    /\ stopScanning({})
    /\ UNCHANGED <<showScanButton, selectedCameraId, inFlight, nextStart,
                   onloadedmetadata>>
    /\ UNCHANGED restVars

----------------------------------------------------------------------------
(* The stop-after-scan Scan page.  Its Start, Stop and Restart buttons and *)
(* its stopScanning are those above; its startCamera waits for play() and  *)
(* starts detection at once, and its detectBarcodes does not read          *)
(* isScanning.  A detect call awaiting its result is parked with the       *)
(* closure of the interval that made it.                                   *)

\* getUserMedia resolves: streamRef.current = stream, then the video element
\* takes it, up to `await videoRef.current.play()`
StreamObtainedStopAfterScan(p) ==
    /\ p \in pending /\ p.pc = "getUserMedia"
    /\ tracks' = tracks \cup {p.id}
    /\ streamRef' = p.id
    /\ IF mounted
       THEN /\ srcObject' = p.id
            /\ pending' = (pending \ {p})
                          \cup {Parked(p.id, "play", p.scanning, p.camera)}
       ELSE /\ pending' = pending \ {p}
            /\ UNCHANGED srcObject
    /\ UNCHANGED <<mounted, isScanning, showScanButton, selectedCameraId,
                   scanIntervalRef, intervals, inFlight, engineIdle,
                   nextStart, codeReaderRef, onloadedmetadata,
                   restartTimeoutRef>>
    /\ UNCHANGED restVars

\* play() resolves: setIsScanning(true), initBarcodeDetector,
\* startBarcodeDetection: scanIntervalRef.current = setInterval(...)
PlayingStopAfterScan(p) ==
    /\ p \in pending /\ p.pc = "play"
    /\ mounted
    /\ isScanning' = TRUE
    /\ pending' = pending \ {p}
    /\ intervals' = intervals \cup {[id |-> p.id, scanning |-> p.scanning]}
    /\ scanIntervalRef' = p.id
    /\ UNCHANGED <<mounted, showScanButton, selectedCameraId, streamRef,
                   srcObject, tracks, inFlight, engineIdle, nextStart,
                   codeReaderRef, onloadedmetadata, restartTimeoutRef>>
    /\ UNCHANGED restVars

\* An interval tick, detectBarcodes up to `await detector.detect`
detectBarcodesStopAfterScan(i) ==
    /\ i \in intervals
    /\ srcObject # 0
    /\ Parked(i.id, "detect", i.scanning, 0) \notin pending
    /\ pending' = pending \cup {Parked(i.id, "detect", i.scanning, 0)}
    /\ UNCHANGED <<mounted, isScanning, showScanButton, selectedCameraId,
                   streamRef, srcObject, tracks, scanIntervalRef, intervals,
                   inFlight, engineIdle, nextStart, codeReaderRef,
                   onloadedmetadata, restartTimeoutRef>>
    /\ UNCHANGED restVars

\* detector.detect resolves with no barcode
DetectedNothingStopAfterScan(p) ==
    /\ p \in pending /\ p.pc = "detect"
    /\ pending' = pending \ {p}
    /\ UNCHANGED <<mounted, isScanning, showScanButton, selectedCameraId,
                   streamRef, srcObject, tracks, scanIntervalRef, intervals,
                   inFlight, engineIdle, nextStart, codeReaderRef,
                   onloadedmetadata, restartTimeoutRef>>
    /\ UNCHANGED restVars

\* detector.detect resolves with a barcode: addScanMutation.mutate,
\* stopScanning, then restartTimeoutRef.current = setTimeout(() => {
\* if (isScanning) startCamera() }, 1000) with the isScanning of the closure
DetectedBarcodeStopAfterScan(p, rawValue) ==
    /\ p \in pending /\ p.pc = "detect"
    /\ rawValue # <<>>
    /\ nextStart <= MaxStarts
    /\ addScanMutation(rawValue)
    /\ StopEffects({p}, {Parked(nextStart, "restart", p.scanning,
                                selectedCameraId)})
    /\ restartTimeoutRef' = nextStart
    /\ nextStart' = nextStart + 1
    /\ UNCHANGED <<mounted, showScanButton, selectedCameraId, inFlight,
                   onloadedmetadata>>
    /\ UNCHANGED <<now, ticks, deviceName, forced, file, importResults,
                   queryVars, otherExt, nativeDetector,
                   moreExt>>

\* The 1000 ms timer fires: if (isScanning) startCamera()
RestartTimeout(p) ==
    /\ p \in pending /\ p.pc = "restart"
    /\ IF p.scanning
       THEN /\ pending' = (pending \ {p})
                          \cup {Parked(p.id, "getUserMedia", p.scanning,
                                       p.camera)}
            /\ engineIdle' = FALSE
       ELSE /\ pending' = pending \ {p}
            /\ UNCHANGED engineIdle
    /\ UNCHANGED <<mounted, isScanning, showScanButton, selectedCameraId,
                   streamRef, srcObject, tracks, scanIntervalRef, intervals,
                   inFlight, nextStart, codeReaderRef, onloadedmetadata,
                   restartTimeoutRef>>
    /\ UNCHANGED restVars

----------------------------------------------------------------------------
(* List page *)

NoUpdate == [ids |-> {}, checked |-> FALSE, counts |-> <<>>]

\* The table after updateScanChecked(id, checked) for every id of `ids`
RECURSIVE UpdateAll(_, _, _)
UpdateAll(table, ids, checked) ==
    IF ids = {} THEN table
    ELSE LET id == CHOOSE i \in ids : TRUE
         IN  UpdateAll(updateScanChecked(table, id, checked).table,
                       ids \ {id}, checked)

\* toggleSelectedChecked: one updateScanChecked per selected id, all
\* awaited; counts[id] is what the call for id resolved to
toggleSelectedChecked(selectedIds, checked) ==
    /\ selectedIds # {}
    /\ scans' = UpdateAll(scans, selectedIds, checked)
    /\ updateResult' =
          [ids |-> selectedIds, checked |-> checked,
           counts |-> [id \in selectedIds |->
                          updateScanChecked(scans, id, checked).count]]
    /\ outcome' = Outcome("update", "done")
    /\ UNCHANGED <<nextId, now, ticks, deviceName, lastAttemptedTrackingRef,
                   lastScanId, toasts, forced, file, importResults,
                   searchResults, bulkResults, captureVars, extVars>>

\* toggleCheckedMutation: the row's checkbox, updateScanChecked(id, !checked)
toggleCheckedMutation(id, checked) ==
    /\ \E scan \in scans : scan.id = id /\ scan.checked = checked
    /\ scans' = updateScanChecked(scans, id, ~checked).table
    /\ updateResult' =
          [ids |-> {id}, checked |-> ~checked,
           counts |-> [i \in {id} |->
                          updateScanChecked(scans, id, ~checked).count]]
    /\ outcome' = Outcome("update", "done")
    /\ UNCHANGED <<nextId, now, ticks, deviceName, lastAttemptedTrackingRef,
                   lastScanId, toasts, forced, file, importResults,
                   searchResults, bulkResults, captureVars, extVars>>

\* deleteSelectedMutation
deleteSelectedMutation(ids) ==
    /\ ids # {}
    /\ scans' = deleteScans(scans, ids)
    /\ outcome' = Outcome("delete", "done")
    /\ UNCHANGED <<nextId, now, ticks, deviceName, lastAttemptedTrackingRef,
                   lastScanId, toasts, forced, file, importResults,
                   queryVars, captureVars, extVars>>

----------------------------------------------------------------------------
(* Search page: the search query and bulk verify *)

SearchLimit == 200

SuggestionLimit == 5

NoSearch == [term |-> <<>>, rows |-> <<>>]

NoBulk == [input |-> <<>>, results |-> <<>>]

\* The search query's queryFn for the debounced term
SearchQuery(debouncedTerm) ==
    /\ searchResults' =
          [term |-> debouncedTerm,
           rows |-> IF Trim(debouncedTerm) = <<>> THEN <<>>
                    ELSE searchScans(scans, normalizeTracking(debouncedTerm),
                                     SearchLimit)]
    /\ outcome' = Outcome("search", "done")
    /\ UNCHANGED <<scans, nextId, now, ticks, deviceName,
                   lastAttemptedTrackingRef, lastScanId, toasts, forced, file,
                   importResults, updateResult, bulkResults, captureVars, extVars>>

\* The character class of the split pattern /[\n,;]+/
IsSeparator_NoSemicolon(c) == c \in {"\n", ","}

IsSeparator(c) == c \in {"\n", ",", ";"}

RECURSIVE DropSeparators(_)
DropSeparators(s) ==
    IF s # <<>> /\ IsSeparator(Head(s)) THEN DropSeparators(Tail(s)) ELSE s

\* The rest of input.split(/[\n,;]+/), `piece` being the piece under way
RECURSIVE SplitFrom(_, _)
SplitFrom(s, piece) ==
    IF s = <<>> THEN <<piece>>
    ELSE IF IsSeparator(Head(s))
         THEN <<piece>> \o SplitFrom(DropSeparators(s), <<>>)
         ELSE SplitFrom(Tail(s), piece \o <<Head(s)>>)

\* input.split(/[\n,;]+/)
Split(input) == SplitFrom(input, <<>>)

\* parseBulkInput: split, trim, drop the empty lines, normalise
parseBulkInput(input) ==
    LET lines   == Split(input)
        trimmed == [i \in 1..Len(lines) |-> Trim(lines[i])]
        kept    == SelectSeq(trimmed, LAMBDA line : Len(line) > 0)
    IN  [i \in 1..Len(kept) |-> normalizeTracking(kept[i])]

\* One BulkSearchResult of performBulkSearch
BulkSearchResult(table, tracking) ==
    LET exactMatch  == getScanByTracking(table, tracking)
        suggestions == searchScans(table, tracking, SuggestionLimit)
    IN  [tracking |-> tracking,
         found |-> exactMatch # <<>>,
         scan |-> exactMatch,
         suggestions |-> SelectSeq(suggestions,
                                   LAMBDA s : s.tracking # tracking)]

\* performBulkSearch, bulkInput being the text area
performBulkSearch(bulkInput) ==
    LET trackingNumbers == parseBulkInput(bulkInput)
    IN  /\ IF Len(trackingNumbers) = 0
           THEN /\ outcome' = Outcome("verify", "nothing")
                /\ UNCHANGED bulkResults
           ELSE /\ bulkResults' =
                      [input |-> bulkInput,
                       results |-> [i \in 1..Len(trackingNumbers) |->
                                       BulkSearchResult(scans,
                                                        trackingNumbers[i])]]
                /\ outcome' = Outcome("verify", "done")
        /\ UNCHANGED <<scans, nextId, now, ticks, deviceName,
                       lastAttemptedTrackingRef, lastScanId, toasts, forced,
                       file, importResults, updateResult, searchResults,
                       captureVars, extVars>>

----------------------------------------------------------------------------
(* Initial states, inputs and specifications *)

\* Rows of hand-written JSON files
Row(tracking, timestamp, date, time, checked, name) ==
    [tracking |-> tracking, timestamp |-> timestamp, date |-> date,
     time |-> time, checked |-> checked, deviceName |-> name]

HandRows ==
    { Row(StrVal(<<"a", " ", "b">>), NumVal(InitialNow), Undefined,
          Undefined, BoolVal(TRUE), StrVal(<<"x", " ">>)),
      Row(StrVal(<<"A", "-", "b">>),
          StrVal(NumberToString(InitialNow - DayMs)), Undefined, Undefined,
          StrVal(<<"T", "R", "U", "E">>), Undefined),
      Row(StrVal(<<"b">>), Undefined,
          StrVal(formatDate(InitialNow - DayMs)),
          StrVal(formatTime(InitialNow - DayMs)), Undefined, Undefined),
      Row(StrVal(<<" ">>), NumVal(InitialNow), Undefined, Undefined,
          Undefined, Undefined) }

HandFiles ==
    {[format |-> "json", rows |-> rows, source |-> <<>>] :
        rows \in UNION {[1..n -> HandRows] : n \in 1..MaxRows}}

\* Rows whose timestamp cannot be read: a string that is no number, a
\* date and time that are no date; and a row without any timestamp
CoerceRows ==
    { Row(StrVal(<<"b">>), StrVal(<<"x">>), Undefined, Undefined,
          Undefined, Undefined),
      Row(StrVal(<<"A", "-", "b">>), Undefined, StrVal(<<"x">>),
          StrVal(<<"y">>), Undefined, Undefined),
      Row(StrVal(<<"a", "b">>), Undefined, Undefined, Undefined,
          Undefined, Undefined) }

CoerceFiles ==
    {[format |-> "json", rows |-> rows, source |-> <<>>] :
        rows \in UNION {[1..n -> CoerceRows] : n \in 1..MaxRows}}

----------------------------------------------------------------------------
(* The dual-write store: every call changes the local table first and then *)
(* mirrors the change to the Netlify function over one HTTP request.  A    *)
(* request is answered "ok", fails before the function runs ("fail"), or   *)
(* is applied by the function while its answer never arrives ("lost").     *)

Responses == {"ok", "fail", "lost"}

NoMutation == [op |-> "none", ids |-> {}, checked |-> FALSE]

Mutation(op, ids, checked) == [op |-> op, ids |-> ids, checked |-> checked]

Request(method, ok) == [method |-> method, ok |-> ok]

\* Netlify function, POST: the scan is stored under a fresh id
NetlifyPOST(store, rid, scan) ==
    {s \in store : s.id # rid}
    \cup {[id |-> rid, tracking |-> scan.tracking,
                 timestamp |-> scan.timestamp,
                 deviceName |-> scan.deviceName, checked |-> scan.checked]}

\* Netlify function, PUT: 404 when the id is unknown, else the merge
NetlifyPUT(store, rid, checked) ==
    {IF s.id = rid THEN [s EXCEPT !.checked = checked] ELSE s : s \in store}

\* Netlify function, DELETE: every id given is deleted
NetlifyDELETE(store, rids) == {s \in store : s.id \notin rids}

\* saveScanToNetlify with a second POST after a failed one
saveScanToNetlify_Retry(store, rid, scan, response) ==
    [store |-> IF response = "fail" THEN store
               ELSE NetlifyPOST(store, rid, scan),
     requests |-> IF response = "ok" THEN <<Request("POST", TRUE)>>
                  ELSE <<Request("POST", FALSE), Request("POST", FALSE)>>,
     id |-> IF response = "ok" THEN rid ELSE 0]

\* saveScanToNetlify: one POST; id 0 stands for the call having thrown
saveScanToNetlify(store, rid, scan, response) ==
    [store |-> IF response = "fail" THEN store
               ELSE NetlifyPOST(store, rid, scan),
     requests |-> <<Request("POST", response = "ok")>>,
     id |-> IF response = "ok" THEN rid ELSE 0]

\* updateScanOnNetlify: one PUT; it throws on a failed request and on 404
updateScanOnNetlify(store, rid, checked, response) ==
    [store |-> IF response = "fail" THEN store
               ELSE NetlifyPUT(store, rid, checked),
     requests |-> <<Request("PUT", /\ response = "ok"
                                   /\ \E s \in store : s.id = rid)>>]

\* deleteScansFromNetlify: one DELETE
deleteScansFromNetlify(store, rids, response) ==
    [store |-> IF response = "fail" THEN store
               ELSE NetlifyDELETE(store, rids),
     requests |-> <<Request("DELETE", response = "ok")>>]

\* Scan page ingestion over the dual-write addScan: db.scans.add, then
\* saveScanToNetlify and, when it answers, netlifyId stored on the record
addScanDual(rawValue, response) ==
    /\ rawValue # <<>>
    /\ nextId <= MaxMirrored
    /\ addScanMutation(rawValue)
    /\ IF scans' # scans
       THEN \E r \in {saveScanToNetlify(remoteStore, nextRemoteId,
                         CHOOSE s \in scans' : s \notin scans, response)} :
                /\ remoteStore' = r.store
                /\ nextRemoteId' = IF response = "fail" THEN nextRemoteId
                                   ELSE nextRemoteId + 1
                /\ netlifyId' = [netlifyId EXCEPT ![nextId] = r.id]
                /\ requests' = r.requests
                /\ mutation' = Mutation("add", {nextId}, FALSE)
       ELSE /\ response = "ok"
            /\ requests' = <<>>
            /\ mutation' = NoMutation
            /\ UNCHANGED <<remoteStore, nextRemoteId, netlifyId>>
    /\ UNCHANGED <<now, ticks, deviceName, forced, file, importResults>>
    /\ UNCHANGED <<queryVars, captureVars, nonDualExt>>

\* The dual-write updateScanChecked: db.scans.update, then a PUT when the
\* record carries a netlifyId
updateScanCheckedDual(id, checked, response) ==
    /\ \E scan \in scans : scan.id = id
    /\ scans' = updateScanChecked(scans, id, checked).table
    /\ IF netlifyId[id] # 0
       THEN \E r \in {updateScanOnNetlify(remoteStore, netlifyId[id],
                                          checked, response)} :
                /\ remoteStore' = r.store
                /\ requests' = r.requests
       ELSE /\ response = "ok"
            /\ requests' = <<>>
            /\ UNCHANGED remoteStore
    /\ mutation' = Mutation("update", {id}, checked)
    /\ outcome' = Outcome("update", "done")
    /\ UNCHANGED <<nextId, now, ticks, deviceName, lastAttemptedTrackingRef,
                   lastScanId, toasts, forced, file, importResults,
                   queryVars, captureVars, nonDualExt, netlifyId,
                   nextRemoteId>>

\* The dual-write deleteScans: the netlifyIds are collected, the records
\* deleted, then one DELETE when any netlifyId was found
deleteScansDual(ids, response) ==
    LET netlifyIds == {netlifyId[i] : i \in ids} \ {0}
    IN  /\ ids # {}
        /\ scans' = deleteScans(scans, ids)
        /\ netlifyId' = [i \in DOMAIN netlifyId |->
                            IF i \in ids THEN 0 ELSE netlifyId[i]]
        /\ IF netlifyIds # {}
           THEN \E r \in {deleteScansFromNetlify(remoteStore, netlifyIds,
                                                 response)} :
                    /\ remoteStore' = r.store
                    /\ requests' = r.requests
           ELSE /\ response = "ok"
                /\ requests' = <<>>
                /\ UNCHANGED remoteStore
        /\ mutation' = Mutation("delete", ids, FALSE)
        /\ outcome' = Outcome("delete", "done")
        /\ UNCHANGED <<nextId, now, ticks, deviceName,
                       lastAttemptedTrackingRef, lastScanId, toasts, forced,
                       file, importResults, queryVars, captureVars,
                       nonDualExt, nextRemoteId>>

\* The dual-write clearAllScans: db.scans.clear() and nothing else
clearAllScansDual ==
    /\ scans # {}
    /\ scans' = {}
    /\ netlifyId' = [i \in DOMAIN netlifyId |-> 0]
    /\ requests' = <<>>
    /\ mutation' = Mutation("clear", ScanIds, FALSE)
    /\ outcome' = Outcome("clear", "done")
    /\ UNCHANGED <<nextId, now, ticks, deviceName, lastAttemptedTrackingRef,
                   lastScanId, toasts, forced, file, importResults,
                   queryVars, captureVars, nonDualExt, remoteStore,
                   nextRemoteId>>

----------------------------------------------------------------------------
(* The cloud-only store: no local table, every call is one request to the  *)
(* Netlify function, whose records are remoteStore.  `fault` says that the *)
(* request of the call fails (the network is down, the function answers    *)
(* 500).  cloudResult records the call, whether it met a fault, whether    *)
(* its promise rejected, what it resolved to and whether a record was      *)
(* inserted.                                                               *)

NoCloudResult == [op |-> "none", fault |-> FALSE, rejected |-> FALSE,
                  inserted |-> FALSE, value |-> <<>>]

CloudResult(op, fault, rejected, inserted, value) ==
    [op |-> op, fault |-> fault, rejected |-> rejected,
     inserted |-> inserted, value |-> value]

\* fetchScansFromNetlify: the GET answers with the scans, newest first
fetchScansFromNetlify(store) == DescByTimestamp(store)

\* getAllScans: [] when the fetch throws
getAllScansCloud(store, fault) ==
    IF fault THEN <<>> ELSE fetchScansFromNetlify(store)

\* searchScans: [] when the fetch throws
searchScansCloud(store, term, limit, fault) ==
    LET normalizedTerm == normalizeTracking(term)
        hits == {s \in store : Includes(s.tracking, normalizedTerm)}
    IN  IF fault THEN <<>> ELSE Take(fetchScansFromNetlify(hits), limit)

\* checkDuplicateToday: allScans.find(...), undefined when the fetch throws
checkDuplicateTodayCloud(store, tracking, today, fault) ==
    LET startOfDay == StartOfDay(today)
        endOfDay   == startOfDay + 24 * 60 * 60 * 1000 - 1
        hits == {s \in store : /\ s.tracking = tracking
                               /\ s.timestamp >= startOfDay
                               /\ s.timestamp <= endOfDay}
    IN  IF fault THEN <<>> ELSE Take(fetchScansFromNetlify(hits), 1)

\* getScanByTracking: allScans.find(...), undefined when the fetch throws
getScanByTrackingCloud(store, tracking, fault) ==
    LET hits == {s \in store : s.tracking = tracking}
    IN  IF fault THEN <<>> ELSE Take(fetchScansFromNetlify(hits), 1)

\* The state the cloud-only calls leave alone
cloudRest == <<scans, nextId, now, ticks, deviceName, forced, file,
               importResults, queryVars, captureVars, netlifyId, requests,
               mutation, undoToasts, calls, report, captureExt, moreExt>>

\* The List page's query: scanOperations.getAllScans
QueryAllScansCloud(fault) ==
    /\ cloudResult' = CloudResult("getAllScans", fault, FALSE, FALSE,
                                  getAllScansCloud(remoteStore, fault))
    /\ cloudResult' # cloudResult
    /\ UNCHANGED <<remoteStore, nextRemoteId, lastAttemptedTrackingRef,
                   lastScanId, toasts, outcome>>
    /\ UNCHANGED cloudRest

\* The Search page's query: scanOperations.searchScans(term, 200)
QuerySearchCloud(term, fault) ==
    /\ cloudResult' = CloudResult("searchScans", fault, FALSE, FALSE,
                         searchScansCloud(remoteStore, term, SearchLimit,
                                          fault))
    /\ cloudResult' # cloudResult
    /\ UNCHANGED <<remoteStore, nextRemoteId, lastAttemptedTrackingRef,
                   lastScanId, toasts, outcome>>
    /\ UNCHANGED cloudRest

\* Bulk verify's lookup: scanOperations.getScanByTracking
QueryByTrackingCloud(tracking, fault) ==
    /\ cloudResult' = CloudResult("getScanByTracking", fault, FALSE, FALSE,
                         getScanByTrackingCloud(remoteStore, tracking, fault))
    /\ cloudResult' # cloudResult
    /\ UNCHANGED <<remoteStore, nextRemoteId, lastAttemptedTrackingRef,
                   lastScanId, toasts, outcome>>
    /\ UNCHANGED cloudRest

\* addScanMutation over the cloud-only store: checkDuplicateToday, then
\* addScan (which rethrows), then onSuccess or onError
addScanMutationCloud(tracking, checkFault, saveFault) ==
    LET normalized == normalizeTracking(tracking)
        duplicate  == checkDuplicateTodayCloud(remoteStore, normalized, now,
                                               checkFault)
    IN  /\ tracking # <<>>
        /\ lastAttemptedTrackingRef' = normalized
        /\ IF duplicate # <<>>
           THEN /\ ~saveFault
                /\ toasts' = toasts \cup {normalized}
                /\ outcome' = Outcome("ingest", "DUPLICATE")
                /\ cloudResult' = CloudResult("ingest", checkFault, TRUE,
                                              FALSE, <<>>)
                /\ UNCHANGED <<remoteStore, nextRemoteId, lastScanId>>
           ELSE IF saveFault
           THEN \* toast.error('Failed to save scan')
                /\ outcome' = Outcome("ingest", "failed")
                /\ cloudResult' = CloudResult("ingest", TRUE, TRUE, FALSE,
                                              <<>>)
                /\ UNCHANGED <<remoteStore, nextRemoteId, lastScanId,
                               toasts>>
           ELSE /\ Cardinality(remoteStore) < MaxScans
                /\ nextRemoteId <= MaxId
                /\ remoteStore' = NetlifyPOST(remoteStore, nextRemoteId,
                                     [tracking |-> normalized,
                                      timestamp |-> now,
                                      deviceName |-> getDeviceName,
                                      checked |-> FALSE])
                /\ nextRemoteId' = nextRemoteId + 1
                /\ lastScanId' = nextRemoteId
                /\ outcome' = Outcome("ingest", "saved")
                /\ cloudResult' = CloudResult("ingest", checkFault, FALSE,
                                              TRUE, <<>>)
                /\ UNCHANGED toasts
        /\ UNCHANGED cloudRest

\* updateScanChecked: 1 when the PUT was answered, else it rethrows
updateScanCheckedCloud(id, checked, fault) ==
    /\ \E s \in remoteStore : s.id = id
    /\ remoteStore' = IF fault THEN remoteStore
                      ELSE NetlifyPUT(remoteStore, id, checked)
    /\ cloudResult' = CloudResult("updateScanChecked", fault, fault, FALSE,
                                  IF fault THEN <<>> ELSE <<1>>)
    /\ outcome' = Outcome("update", IF fault THEN "failed" ELSE "done")
    /\ UNCHANGED <<nextRemoteId, lastAttemptedTrackingRef, lastScanId,
                   toasts>>
    /\ UNCHANGED cloudRest

\* deleteScans: it rethrows when the DELETE fails
deleteScansCloud(ids, fault) ==
    /\ ids # {}
    /\ remoteStore' = IF fault THEN remoteStore
                      ELSE NetlifyDELETE(remoteStore, ids)
    /\ cloudResult' = CloudResult("deleteScans", fault, fault, FALSE, <<>>)
    /\ outcome' = Outcome("delete", IF fault THEN "failed" ELSE "done")
    /\ UNCHANGED <<nextRemoteId, lastAttemptedTrackingRef, lastScanId,
                   toasts>>
    /\ UNCHANGED cloudRest

----------------------------------------------------------------------------
(* Scan page: the 'Scanned' toast and its Undo.  The toast is made by      *)
(* onSuccess, before the setLastScanId of the same onSuccess is rendered:  *)
(* the undoLastScan its onClick calls reads the lastScanId of that render. *)

\* addScanMutation with its onSuccess toast
addScanMutationToast(rawValue) ==
    /\ rawValue # <<>>
    /\ addScanMutation(rawValue)
    /\ undoToasts' = IF scans' # scans
                     THEN undoToasts \cup {[scanId |-> nextId,
                                            lastScanId |-> lastScanId]}
                     ELSE undoToasts
    /\ UNCHANGED <<now, ticks, deviceName, forced, file, importResults,
                   queryVars, captureVars, dualVars, cloudResult, calls,
                   report, captureExt, moreExt>>

\* undoLastScan, from the Undo action of the toast t
undoLastScan(t) ==
    /\ t \in undoToasts
    /\ undoToasts' = undoToasts \ {t}
    /\ IF t.lastScanId # 0
       THEN /\ scans' = deleteScans(scans, {t.lastScanId})
            /\ lastScanId' = 0
            /\ outcome' = Outcome("undo", "done")
       ELSE UNCHANGED <<scans, lastScanId, outcome>>
    /\ UNCHANGED <<nextId, now, ticks, deviceName, lastAttemptedTrackingRef,
                   toasts, forced, file, importResults, queryVars,
                   captureVars, dualVars, cloudResult, calls, report,
                   captureExt, moreExt>>

\* The toast t goes away after its two seconds
ToastExpires(t) ==
    /\ t \in undoToasts
    /\ undoToasts' = undoToasts \ {t}
    /\ UNCHANGED <<scans, nextId, now, ticks, deviceName,
                   lastAttemptedTrackingRef, lastScanId, toasts, outcome,
                   forced, file, importResults, queryVars, captureVars,
                   dualVars, cloudResult, calls, report, captureExt, moreExt>>

----------------------------------------------------------------------------
(* List page: mark-all-selected call by call.  calls.status[id] is the     *)
(* promise of updateScanChecked(id, checked): pending, resolved or         *)
(* rejected (the store failed).  The handler awaits Promise.all of them:   *)
(* it goes on when all have resolved or as soon as one has rejected.       *)

NoCalls == [checked |-> FALSE, status |-> <<>>]

Pending(c) == {id \in DOMAIN c.status : c.status[id] = "pending"}

\* toggleSelectedChecked up to `await Promise.all(promises)`
toggleSelectedCheckedCalls(selectedIds, checked) ==
    /\ selectedIds # {}
    /\ Pending(calls) = {}
    /\ calls' = [checked |-> checked,
                 status |-> [id \in selectedIds |-> "pending"]]
    /\ report' = "none"
    /\ UNCHANGED <<scans, nextId, now, ticks, deviceName,
                   lastAttemptedTrackingRef, lastScanId, toasts, outcome,
                   forced, file, importResults, queryVars, captureVars,
                   dualVars, cloudResult, undoToasts, captureExt, moreExt>>

\* The promise of one call settles; Promise.all settles with it when it
\* was the last to resolve or the first to reject, and the handler shows
\* 'Marked n scans as ...' or 'Failed to update scans'
updateScanCheckedSettles(id, ok) ==
    /\ id \in Pending(calls)
    /\ calls' = [calls EXCEPT !.status[id] =
                    IF ok THEN "resolved" ELSE "rejected"]
    /\ scans' = IF ok THEN updateScanChecked(scans, id, calls.checked).table
                ELSE scans
    /\ report' = IF report # "none" THEN report
                 ELSE IF ~ok THEN "failure"
                 ELSE IF Pending(calls') = {} THEN "success"
                 ELSE "none"
    /\ UNCHANGED <<nextId, now, ticks, deviceName,
                   lastAttemptedTrackingRef, lastScanId, toasts, outcome,
                   forced, file, importResults, queryVars, captureVars,
                   dualVars, cloudResult, undoToasts, captureExt, moreExt>>

\* The pages as they are after construction
----------------------------------------------------------------------------
(* The Netlify function scans, request by request: the blob store is       *)
(* remoteStore, keyed by the id POST makes of the scan's timestamp and a   *)
(* random suffix; PUT reads the record and writes the merge back in two    *)
(* awaited calls, so other requests run between them                       *)

\* At most this many PUT invocations between their read and their write
MaxHandlers == 2

\* Math.random().toString(36).substr(2, 9): any of these
Suffixes == {"p", "q"}

\* The scans a client posts: two parcels scanned in the same millisecond
PostedScans ==
    {[tracking |-> tr, timestamp |-> InitialNow, deviceName |-> UnknownDevice,
      checked |-> FALSE] : tr \in RoundTripCodes}

BlobKeys == {<<InitialNow, x>> : x \in Suffixes}

Response(status, deleted, id) ==
    [status |-> status, deleted |-> deleted, id |-> id]

functionRest == <<scans, nextId, now, ticks, deviceName,
                  lastAttemptedTrackingRef, lastScanId, toasts, outcome,
                  forced, file, importResults, queryVars, captureVars,
                  netlifyId, nextRemoteId, requests, mutation, cloudResult,
                  undoToasts, calls, report, captureExt, ingests, pureVars>>

\* POST: id = `${scan.timestamp}_${random}`, store.set(id, scan), 201
FunctionPOST(scan, suffix) ==
    LET id == <<scan.timestamp, suffix>>
    IN  /\ remoteStore' = NetlifyPOST(remoteStore, id, scan)
        /\ lastResponse' = Response(201, 0, id)
        /\ assigned' = assigned \cup {id}
        /\ answered' = answered \ {id}
        /\ UNCHANGED <<handlers, functionRest>>

\* PUT, up to the answer of store.get: 404 when there is no record, else
\* the invocation holds the record it read
FunctionPUTGet(id, checked) ==
    /\ Cardinality(handlers) < MaxHandlers
    /\ IF \E s \in remoteStore : s.id = id
       THEN /\ handlers' = handlers \cup
                   {[id |-> id, checked |-> checked,
                     existingScan |-> CHOOSE s \in remoteStore : s.id = id]}
            /\ UNCHANGED lastResponse
       ELSE /\ lastResponse' = Response(404, 0, id)
            /\ UNCHANGED handlers
    /\ UNCHANGED <<remoteStore, assigned, answered, functionRest>>

\* PUT, from the answer of store.get: store.set(id, {...existingScan,
\* ...updates}), 200
FunctionPUTSet(h) ==
    /\ h \in handlers
    /\ handlers' = handlers \ {h}
    /\ remoteStore' = {s \in remoteStore : s.id # h.id}
                          \cup {[h.existingScan EXCEPT !.checked = h.checked]}
    /\ lastResponse' = Response(200, 0, h.id)
    /\ UNCHANGED <<assigned, answered, functionRest>>

\* DELETE: store.delete(id) for every id of the array, then 200 with
\* deleted: ids.length
FunctionDELETE(ids) ==
    /\ remoteStore' = NetlifyDELETE(remoteStore, ids)
    /\ lastResponse' = Response(200, Cardinality(ids), <<>>)
    /\ answered' = answered \cup ids
    /\ UNCHANGED <<handlers, assigned, functionRest>>

----------------------------------------------------------------------------
(* normalizeTracking on its own: a string goes in, the result is kept, and *)
(* the result can be handed in again                                       *)

\* Longest string handed to normalizeTracking
MaxLen == 3

NormalizeAlphabet == {"a", "B", " ", "-"}

NormalizeInputs ==
    UNION {[1..n -> NormalizeAlphabet] : n \in 0..MaxLen}

pureRest == <<scans, nextId, now, ticks, deviceName,
              lastAttemptedTrackingRef, lastScanId, toasts, outcome, forced,
              file, importResults, queryVars, captureVars, otherExt,
              captureExt, functionVars, ingests>>

\* normalizeTracking(rawInput)
Normalize ==
    /\ ~normalizedRef.done
    /\ normalizedRef' = [done |-> TRUE, value |-> normalizeTracking(rawInput)]
    /\ UNCHANGED <<rawInput, pureRest>>

\* normalizeTracking of the string it returned
NormalizeAgain ==
    /\ normalizedRef.done
    /\ rawInput' = normalizedRef.value
    /\ normalizedRef' = [done |-> TRUE,
                         value |-> normalizeTracking(normalizedRef.value)]
    /\ UNCHANGED pureRest

----------------------------------------------------------------------------
(* addScanMutation await by await: mutate() starts mutationFn, which waits *)
(* for checkDuplicateToday and then for addScan; other mutate() calls run  *)
(* between the two answers                                                 *)

\* At most this many addScanMutation calls between their two awaits
MaxIngests == 2

ingestRest == <<queryVars, captureVars, otherExt, captureExt, functionVars,
                pureVars>>

\* mutationFn up to the answer of checkDuplicateToday; onError when it
\* throws DUPLICATE
addScanMutationChecks(tracking) ==
    LET normalized == normalizeTracking(tracking)
        duplicate  == checkDuplicateToday(scans, normalized, now)
        call       == CHOOSE n \in 1..MaxIngests :
                         \A m \in ingests : m.call # n
    IN  /\ tracking # <<>>
        /\ Cardinality(ingests) < MaxIngests
        /\ lastAttemptedTrackingRef' = normalized
        /\ IF duplicate # <<>>
           THEN /\ toasts' = toasts \cup {normalized}
                /\ outcome' = Outcome("ingest", "DUPLICATE")
                /\ UNCHANGED ingests
           ELSE /\ ingests' = ingests \cup
                      {[call |-> call, tracking |-> normalized]}
                /\ UNCHANGED <<toasts, outcome>>
        /\ UNCHANGED <<scans, nextId, lastScanId, now, ticks, deviceName,
                       forced, file, importResults, ingestRest>>

\* mutationFn from the answer of checkDuplicateToday: addScan, then
\* onSuccess
addScanMutationAdds(m) ==
    /\ m \in ingests
    /\ Cardinality(scans) < MaxScans /\ nextId <= MaxId
    /\ ingests' = ingests \ {m}
    /\ scans' = addScan(scans, nextId,
                    [tracking |-> m.tracking, timestamp |-> now,
                     deviceName |-> getDeviceName, checked |-> FALSE])
    /\ nextId' = nextId + 1
    /\ lastScanId' = nextId
    /\ outcome' = Outcome("ingest", "saved")
    /\ UNCHANGED <<lastAttemptedTrackingRef, toasts, now, ticks, deviceName,
                   forced, file, importResults, ingestRest>>

\* No response sent yet, nothing normalized yet
NoResponse == [status |-> 0, deleted |-> 0, id |-> <<>>]
NoNormalized == [done |-> FALSE, value |-> <<>>]

InitPages ==
    /\ ticks = 0
    /\ deviceName = <<>>
    /\ lastAttemptedTrackingRef = <<>>
    /\ lastScanId = 0
    /\ toasts = {}
    /\ outcome = NoOutcome
    /\ forced = FALSE
    /\ file = NoFile
    /\ importResults = NoImportResults
    /\ updateResult = NoUpdate
    /\ searchResults = NoSearch
    /\ bulkResults = NoBulk
    /\ mounted = TRUE
    /\ isScanning = FALSE
    /\ showScanButton = FALSE
    /\ selectedCameraId = 1
    /\ streamRef = 0
    /\ srcObject = 0
    /\ tracks = {}
    /\ scanIntervalRef = 0
    /\ intervals = {}
    /\ pending = {}
    /\ inFlight = 0
    /\ engineIdle = TRUE
    /\ nextStart = 1
    /\ netlifyId = [i \in 1..MaxId |-> 0]
    /\ remoteStore = {}
    /\ nextRemoteId = 1
    /\ requests = <<>>
    /\ mutation = NoMutation
    /\ cloudResult = NoCloudResult
    /\ undoToasts = {}
    /\ calls = NoCalls
    /\ report = "none"
    /\ codeReaderRef = NoReader
    /\ onloadedmetadata = NoHandler
    /\ restartTimeoutRef = 0
    /\ lastResponse = NoResponse
    /\ handlers = {}
    /\ assigned = {}
    /\ answered = {}
    /\ ingests = {}
    /\ normalizedRef = NoNormalized

\* A fresh installation: the store is empty
Init ==
    /\ scans = {}
    /\ nextId = 1
    /\ now = InitialNow
    /\ nativeDetector = TRUE
    /\ rawInput = <<>>
    /\ InitPages

Next ==
    \/ \E d \in TickSteps : Tick(d)
    \/ \E text \in ManualTexts : handleManualSubmit(text)
    \/ \E rawValue \in RawCodes : BarcodeDetected(rawValue)
    \/ \E code \in toasts, text \in ManualTexts \cup {<<>>} :
           addDuplicateScan(code, text)
    \/ \E code \in toasts : DismissToast(code)

Spec == Init /\ [][Next]_vars

\* Scanning and importing hand-written files
NextImport ==
    \/ \E d \in TickSteps : Tick(d)
    \/ \E rawValue \in RawCodes : BarcodeDetected(rawValue)
    \/ \E f \in HandFiles : importMutation(f)

SpecImport == Init /\ [][NextImport]_vars

\* Scanning, exporting, clearing and importing the exported file back
NextRoundTrip ==
    \/ Tick(25 * 3600 * 1000)
    \/ \E rawValue \in RoundTripCodes : BarcodeDetected(rawValue)
    \/ handleExportCSV
    \/ handleExportJSON
    \/ clearDatabase
    \/ importMutation(file)

SpecRoundTrip == Init /\ [][NextRoundTrip]_vars

\* The capture engine under every interleaving of the user's buttons, the
\* camera, the timers and the detector
\* A fresh installation on a browser with or without BarcodeDetector
InitCapture ==
    /\ scans = {}
    /\ nextId = 1
    /\ now = InitialNow
    /\ nativeDetector \in BOOLEAN
    /\ rawInput = <<>>
    /\ InitPages

NextCapture ==
    \/ ClickStart
    \/ ClickScanNext
    \/ ClickStop
    \/ ClickRestart
    \/ switchCamera
    \/ Unmount
    \/ \E p \in pending : RestartTimer(p)
    \/ \E p \in pending : StreamObtained(p)
    \/ \E p \in pending : Overconstrained(p)
    \/ \E p \in pending : RetryObtained(p)
    \/ \E p \in pending : RetryPlaying(p)
    \/ \E p \in pending : LoadedMetadata(p)
    \/ \E p \in pending : startBarcodeDetection(p)
    \/ \E p \in pending : startZXingDetection(p)
    \/ \E i \in intervals : detectBarcodes(i)
    \/ ZXingDecode
    \/ DetectedNothing
    \/ \E rawValue \in CaptureCodes : DetectedBarcode(rawValue)
    \/ \E rawValue \in CaptureCodes : handleResult(rawValue)

SpecCapture == InitCapture /\ [][NextCapture]_vars

\* The stop-after-scan page under every interleaving of the user's buttons,
\* the camera, the timers and the detector
NextStopAfterScan ==
    \/ ClickStart
    \/ ClickStop
    \/ ClickRestart
    \/ Unmount
    \/ \E p \in pending : RestartTimer(p)
    \/ \E p \in pending : StreamObtainedStopAfterScan(p)
    \/ \E p \in pending : PlayingStopAfterScan(p)
    \/ \E i \in intervals : detectBarcodesStopAfterScan(i)
    \/ \E p \in pending : DetectedNothingStopAfterScan(p)
    \/ \E p \in pending, rawValue \in CaptureCodes :
          DetectedBarcodeStopAfterScan(p, rawValue)
    \/ \E p \in pending : RestartTimeout(p)

SpecStopAfterScan == Init /\ [][NextStopAfterScan]_vars

\* The List page over a store filled by scanning, the device renamed in
\* Settings now and then
NextList ==
    \/ \E name \in DeviceNames : saveDeviceName(name)
    \/ \E rawValue \in RoundTripCodes : BarcodeDetected(rawValue)
    \/ \E ids \in SUBSET ScanIds, checked \in BOOLEAN :
           toggleSelectedChecked(ids, checked)
    \/ \E scan \in scans : toggleCheckedMutation(scan.id, scan.checked)
    \/ \E ids \in SUBSET ScanIds : deleteSelectedMutation(ids)

SpecList == Init /\ [][NextList]_vars

\* What a user types into the search field
SearchTerms == { <<"b">>, <<"a", " ">>, <<" ">> }

SingleRowFiles == {f \in HandFiles : Len(f.rows) = 1}

\* The search query over a store filled by scanning and importing
NextSearch ==
    \/ Tick(25 * 3600 * 1000)
    \/ \E rawValue \in RoundTripCodes : BarcodeDetected(rawValue)
    \/ \E f \in SingleRowFiles : importMutation(f)
    \/ \E term \in SearchTerms : SearchQuery(term)

SpecSearch == Init /\ [][NextSearch]_vars

\* Bulk verify as a function of the store and the text: the store holds
\* one label scanned per day, the page is freshly loaded
VerifyTrackings == { <<"A", "B">>, <<"B">> }

StoreOf(f) ==
    {[id |-> i, tracking |-> f[i],
      timestamp |-> InitialNow + (i - 1) * DayMs,
      deviceName |-> UnknownDevice, checked |-> FALSE] : i \in DOMAIN f}

\* What a user pastes into the bulk text area
BulkInputs ==
    { <<"a", "b", "\n", "b", ",", " ", "x">>,
      <<";", ";", "a", "-", "b", ";", " ", ",", "b">>,
      <<" ", "\n">>,
      <<"b">>,
      <<"-", ",", "a">> }

InitVerify ==
    /\ \E n \in 0..MaxStored : \E f \in [1..n -> VerifyTrackings] :
          /\ scans = StoreOf(f)
          /\ nextId = n + 1
          /\ now = InitialNow + n * DayMs
    /\ nativeDetector = TRUE
    /\ rawInput = <<>>
    /\ InitPages

NextVerify == \E bulkInput \in BulkInputs : performBulkSearch(bulkInput)

SpecVerify == InitVerify /\ [][NextVerify]_vars

\* The Scan, List and Settings pages over the dual-write store
NextDual ==
    \/ \E rawValue \in RoundTripCodes, response \in Responses :
          addScanDual(rawValue, response)
    \/ \E id \in ScanIds, checked \in BOOLEAN, response \in Responses :
          updateScanCheckedDual(id, checked, response)
    \/ \E ids \in SUBSET ScanIds, response \in Responses :
          deleteScansDual(ids, response)
    \/ clearAllScansDual

SpecDual == Init /\ [][NextDual]_vars

\* The pages over the cloud-only store while requests may fail
NextCloud ==
    \/ \E rawValue \in RoundTripCodes, checkFault, saveFault \in BOOLEAN :
          addScanMutationCloud(rawValue, checkFault, saveFault)
    \/ \E fault \in BOOLEAN : QueryAllScansCloud(fault)
    \/ \E term \in SearchTerms, fault \in BOOLEAN :
          QuerySearchCloud(term, fault)
    \/ \E tracking \in VerifyTrackings, fault \in BOOLEAN :
          QueryByTrackingCloud(tracking, fault)
    \/ \E s \in remoteStore, checked, fault \in BOOLEAN :
          updateScanCheckedCloud(s.id, checked, fault)
    \/ \E ids \in SUBSET {s.id : s \in remoteStore}, fault \in BOOLEAN :
          deleteScansCloud(ids, fault)

SpecCloud == Init /\ [][NextCloud]_vars

\* Scanning, and undoing from the toasts on screen
NextUndo ==
    \/ Tick(25 * 3600 * 1000)
    \/ \E rawValue \in RoundTripCodes : addScanMutationToast(rawValue)
    \/ \E t \in undoToasts : undoLastScan(t)
    \/ \E t \in undoToasts : ToastExpires(t)

SpecUndo == Init /\ [][NextUndo]_vars

\* The List page marking the selection while single update calls may fail
NextMark ==
    \/ \E rawValue \in RoundTripCodes : BarcodeDetected(rawValue)
    \/ \E ids \in SUBSET ScanIds, checked \in BOOLEAN :
          toggleSelectedCheckedCalls(ids, checked)
    \/ \E id \in ScanIds, ok \in BOOLEAN : updateScanCheckedSettles(id, ok)

SpecMark == Init /\ [][NextMark]_vars

\* Importing files whose rows have unreadable timestamps
NextCoerce ==
    \/ \E d \in TickSteps : Tick(d)
    \/ \E rawValue \in RoundTripCodes : BarcodeDetected(rawValue)
    \/ \E f \in CoerceFiles : importMutation(f)

SpecCoerce == Init /\ [][NextCoerce]_vars

\* The requests of the Netlify function, in any order
NextFunction ==
    \/ \E scan \in PostedScans, suffix \in Suffixes :
          FunctionPOST(scan, suffix)
    \/ \E id \in BlobKeys, checked \in BOOLEAN : FunctionPUTGet(id, checked)
    \/ \E h \in handlers : FunctionPUTSet(h)
    \/ \E ids \in SUBSET BlobKeys : FunctionDELETE(ids)

SpecFunction == Init /\ [][NextFunction]_vars

\* Scanning, typing, 'Add anyway' and importing, in any order
NextStored ==
    \/ \E text \in ManualTexts : handleManualSubmit(text)
    \/ \E rawValue \in RawCodes : BarcodeDetected(rawValue)
    \/ \E code \in toasts, text \in ManualTexts \cup {<<>>} :
           addDuplicateScan(code, text)
    \/ \E code \in toasts : DismissToast(code)
    \/ \E f \in SingleRowFiles : importMutation(f)

SpecStored == Init /\ [][NextStored]_vars

\* normalizeTracking applied to every string of the bounded alphabet
InitNormalize ==
    /\ scans = {}
    /\ nextId = 1
    /\ now = InitialNow
    /\ nativeDetector = TRUE
    /\ rawInput \in NormalizeInputs
    /\ InitPages

NextNormalize ==
    \/ Normalize
    \/ NormalizeAgain

SpecNormalize == InitNormalize /\ [][NextNormalize]_vars

\* mutate() calls overlapping: decoder results and submissions arrive
\* while earlier calls still wait for the store
NextIngest ==
    \/ \E d \in TickSteps : Tick(d)
    \/ \E rawValue \in RawCodes : addScanMutationChecks(rawValue)
    \/ \E m \in ingests : addScanMutationAdds(m)

SpecIngest == Init /\ [][NextIngest]_vars

\* Scanning and 'Add anyway' next to the List page's delete
NextForced ==
    \/ \E rawValue \in RoundTripCodes : BarcodeDetected(rawValue)
    \/ \E code \in toasts, text \in ManualTexts \cup {<<>>} :
           addDuplicateScan(code, text)
    \/ \E code \in toasts : DismissToast(code)
    \/ \E ids \in SUBSET ScanIds : deleteSelectedMutation(ids)

SpecForced == Init /\ [][NextForced]_vars

\* The dual-write store when every remote request succeeds
NextDualOk ==
    \/ \E rawValue \in RoundTripCodes : addScanDual(rawValue, "ok")
    \/ \E id \in ScanIds, checked \in BOOLEAN :
          updateScanCheckedDual(id, checked, "ok")
    \/ \E ids \in SUBSET ScanIds : deleteScansDual(ids, "ok")
    \/ clearAllScansDual

SpecDualOk == Init /\ [][NextDualOk]_vars

----------------------------------------------------------------------------
(* Properties *)

Day(t) == t \div DayMs

\* The scans of the store that hold `code` on the calendar day of `now`
SameDayHolders(code) ==
    {s \in scans : s.tracking = code /\ Day(s.timestamp) = Day(now)}

\* C1: a live ingest (a decoded label or a manual entry) of a code that the
\* store holds with a timestamp of the current calendar day reports a
\* duplicate and inserts nothing; when every scan with that code is of
\* another day, it inserts one new scan, stamped now, and reports no
\* duplicate.
C1_SequentialIngest ==
    [][\A raw \in RawCodes \cup ManualTexts :
          (BarcodeDetected(raw) \/ handleManualSubmit(raw)) =>
             LET code == normalizeTracking(raw)
             IN  IF SameDayHolders(code) # {}
                 THEN scans' = scans /\ outcome'.result = "DUPLICATE"
                 ELSE /\ outcome'.result = "saved"
                      /\ scans \subseteq scans'
                      /\ \E new \in scans' :
                            /\ scans' \ scans = {new}
                            /\ new.tracking = code
                            /\ new.timestamp = now
                            /\ \A old \in scans : old.id # new.id]_vars

\* A duplicate was reported for a code that the store holds twice, scanned
\* on two different days
C1_Witness ==
    /\ outcome = Outcome("ingest", "DUPLICATE")
    /\ ~forced
    /\ \E a \in scans, b \in scans :
          /\ a.tracking = lastAttemptedTrackingRef
          /\ b.tracking = lastAttemptedTrackingRef
          /\ Day(a.timestamp) # Day(b.timestamp)
          /\ Day(b.timestamp) = Day(now)

\* C2: without a forced insert, after any sequence of live ingests and
\* imports the store holds no two scans with equal tracking whose
\* timestamps fall in the same calendar day.
C2_NoDuplicatePair ==
    ~forced =>
        \A a \in scans, b \in scans :
            (a.id # b.id /\ a.tracking = b.tracking)
                => Day(a.timestamp) # Day(b.timestamp)

\* C3: 'Add anyway' on the duplicate toast of a code inserts a scan of
\* that code: afterwards the store holds the earlier scan and a new scan
\* with the same tracking and another id.
C3_ForcedInsertCoexists ==
    [][\A code \in toasts, text \in ManualTexts \cup {<<>>} :
          addDuplicateScan(code, text) =>
             /\ scans \subseteq scans'
             /\ \E new \in scans' \ scans : \E old \in scans :
                   /\ new.tracking = code
                   /\ old.tracking = code
                   /\ old.id # new.id]_vars

\* C4: once stopScanning has returned and no start has followed, no
\* resolved detect call hands a code to ingestion.
C4_NoCallbackAfterStop ==
    [][(\E rawValue \in CaptureCodes : DetectedBarcode(rawValue))
          => ~engineIdle]_vars

\* C5: whenever the engine is idle (initially, after stopScanning, after
\* the unmount cleanup, between the halves of a restart or a camera
\* switch) no camera track that startCamera acquired is live.
C5_IdleHoldsNoTrack == engineIdle => tracks = {}

\* C6: the import result shown to the user counts as imported the scans
\* the import inserted into the store, and as skipped the valid rows that
\* were not inserted because they duplicate a scan of the same day.
C6_ImportReport ==
    [][\A f \in HandFiles :
          importMutation(f) =>
             /\ importResults'.imported = Cardinality(scans' \ scans)
             /\ importResults'.skipped =
                   Len(importFromFile(f, now).scans)
                       - Cardinality(scans' \ scans)]_vars

TupleOf(s) == <<s.tracking, s.timestamp, s.checked, s.deviceName>>

\* C7: importing an exported file into an empty store yields as many scans
\* as were exported, none skipped, with the same multiset of
\* (tracking, timestamp, checked, deviceName).
C7_RoundTrip ==
    [][(importMutation(file) /\ scans = {}) =>
          /\ Cardinality(scans') = Len(file.source)
          /\ importResults'.skipped = 0
          /\ \A i \in 1..Len(file.source) :
                Cardinality({s \in scans' :
                                TupleOf(s) = TupleOf(file.source[i])})
                  = Cardinality({j \in 1..Len(file.source) :
                                TupleOf(file.source[j])
                                  = TupleOf(file.source[i])})]_vars

Min(a, b) == IF a < b THEN a ELSE b

PieceStarts(input) ==
    {i \in 1..Len(input) :
        /\ input[i] \notin {"\n", ",", ";"}
        /\ i = 1 \/ input[i - 1] \in {"\n", ",", ";"}
        /\ \E k \in i..Len(input) :
              /\ input[k] \notin {" ", "\t", "\n", ",", ";"}
              /\ \A j \in i..k : input[j] \notin {"\n", ",", ";"}}

PieceEnd(input, i) ==
    CHOOSE j \in i..Len(input) :
        /\ \A k \in i..j : input[k] \notin {"\n", ",", ";"}
        /\ j = Len(input) \/ input[j + 1] \in {"\n", ",", ";"}

\* C9: bulk verify yields one result per non-blank piece of the input, in
\* input order, carrying the normalised piece; found says whether a stored
\* scan has exactly that tracking; the suggestions are at most 5 distinct
\* stored scans whose tracking contains the code and never equals it.
C9_BulkVerify ==
    bulkResults # NoBulk =>
        LET input   == bulkResults.input
            results == bulkResults.results
            starts  == PieceStarts(input)
        IN  /\ Len(results) = Cardinality(starts)
            /\ \A i \in starts :
                  LET k == Cardinality({j \in starts : j <= i})
                      r == results[k]
                      code == normalizeTracking(
                                  SubSeq(input, i, PieceEnd(input, i)))
                      shown == {r.suggestions[m] :
                                   m \in 1..Len(r.suggestions)}
                  IN  /\ r.tracking = code
                      /\ r.found = (\E s \in scans : s.tracking = code)
                      /\ Len(r.suggestions) <= 5
                      /\ Cardinality(shown) = Len(r.suggestions)
                      /\ \A s \in shown :
                            /\ s \in scans
                            /\ Includes(s.tracking, code)
                            /\ s.tracking # code

\* Three results: a code found, a code not found with more stored scans
\* containing it than suggestions are shown, a code with no suggestion
C9_Witness ==
    /\ Len(bulkResults.results) = 3
    /\ bulkResults.results[1].found
    /\ ~bulkResults.results[2].found
    /\ Len(bulkResults.results[2].suggestions) = 5
    /\ Cardinality({s \in scans :
                      Includes(s.tracking, bulkResults.results[2].tracking)})
          > 5
    /\ bulkResults.results[3].suggestions = <<>>

\* C10: updating the checked flag of existing ids to the value the
\* previous update gave them changes nothing in the store, leaves the
\* flag at that value, and every call reports one updated record.
C10_UpdateCheckedIdempotent ==
    [][\A ids \in SUBSET ScanIds, checked \in BOOLEAN :
          (/\ toggleSelectedChecked(ids, checked)
           /\ outcome.op = "update"
           /\ updateResult.ids = ids
           /\ updateResult.checked = checked) =>
             /\ scans' = scans
             /\ \A s \in scans' : s.id \in ids => s.checked = checked
             /\ \A id \in ids : updateResult'.counts[id] >= 1]_vars

\* The last dual-write call had a remote request that failed
RemoteFailed == \E i \in 1..Len(requests) : ~requests[i].ok

\* The local change of the last dual-write call is in the table
LocalChangeInPlace ==
    CASE mutation.op = "add" -> mutation.ids \subseteq ScanIds
      [] mutation.op = "update" ->
            \A id \in mutation.ids :
               \E s \in scans : s.id = id /\ s.checked = mutation.checked
      [] mutation.op = "delete" -> mutation.ids \cap ScanIds = {}
      [] OTHER -> TRUE

C12_EveryMutationMirrored ==
    mutation.op # "none" => requests # <<>>

\* C13: every call of the cloud-only store that meets a storage fault
\* reports an error its caller can tell from an empty or successful
\* result, and an ingestion that meets one inserts nothing.
C13_FaultsSurface ==
    cloudResult.fault => (cloudResult.rejected /\ ~cloudResult.inserted)

\* The engine is detecting: the stream plays and a decoder is installed
Detecting ==
    /\ isScanning
    /\ srcObject # 0
    /\ (scanIntervalRef # 0 \/ codeReaderRef.id # 0)

\* C14: while the engine is detecting, a non-empty value returned by the
\* native or the fallback decoder is handed to ingestion and the stream
\* is stopped, however the camera was started.
C14_DecodeEmitted ==
    [][\A rawValue \in CaptureCodes :
          (Detecting /\ (DetectedBarcode(rawValue) \/ handleResult(rawValue)))
             => /\ outcome'.op = "ingest"
                /\ lastAttemptedTrackingRef' = normalizeTracking(rawValue)
                /\ ~isScanning'
                /\ srcObject' = 0]_vars

\* The video element plays the stream that startCamera obtained last
Streaming == mounted /\ isScanning /\ srcObject # 0 /\ srcObject = streamRef

\* C15: whenever the engine is streaming, normally or through the retry
\* with relaxed constraints, a detection loop runs or is about to start.
C15_StreamingDetects ==
    Streaming =>
       \/ intervals # {}
       \/ codeReaderRef.id # 0
       \/ \E p \in pending : p.pc \in {"metadata", "timer"}

\* C16: when the restart timer armed by a successful decode fires (the
\* user neither stopped nor left in the meantime), the camera is started.
C16_RestartAfterScan ==
    [][\A p \in pending :
          RestartTimeout(p) =>
             \E q \in pending' : q.id = p.id /\ q.pc = "getUserMedia"]_vars

\* C17: switchCamera leaves the engine idle with the current track
\* released, and the start it schedules requests the next camera of the
\* list, another one than the camera in use before.
C17_SwitchRequestsNext ==
    [][switchCamera =>
          /\ engineIdle' /\ streamRef \notin tracks'
          /\ \E q \in pending' \ pending :
                /\ q.camera = selectedCameraId'
                /\ q.camera # selectedCameraId]_vars

\* C18: the Undo of the toast of a successful ingest deletes the scan
\* that ingest created and no other scan.
C18_UndoDeletesItsScan ==
    [][\A t \in undoToasts :
          undoLastScan(t) => scans' = {s \in scans : s.id # t.scanId}]_vars

\* C19: mark-all-selected has one call per selected id and tells the user
\* the outcome only when none of them is pending any more.
C19_ReportAfterAllSettled ==
    report # "none" => Pending(calls) = {}

\* The row has a tracking value that is present and not blank
HasTracking(row) ==
    row.tracking.t = "string" /\ Trim(row.tracking.s) # <<>>

\* C20: every row of an imported file with a present, non-blank tracking
\* value becomes a candidate scan, a row with an unreadable timestamp
\* among them (stamped with the current time); no such row is dropped.
C20_TimestampCoerced ==
    [][\A f \in CoerceFiles :
          importMutation(f) =>
             Len(importFromFile(f, now).scans) =
                Cardinality({i \in 1..Len(f.rows) :
                                HasTracking(f.rows[i])})]_vars

\* C21: from creation to deletion a scan keeps its id, tracking, timestamp
\* and deviceName, in the local table and in the remote store; a checked
\* update changes only the checked field of the scan it names, leaves every
\* other scan as it was and leaves the set of ids as it was.
SameIdentity(s, t) ==
    /\ s.tracking = t.tracking
    /\ s.timestamp = t.timestamp
    /\ s.deviceName = t.deviceName

C22_IdFreshness ==
    [][\A scan \in PostedScans, suffix \in Suffixes :
          FunctionPOST(scan, suffix) =>
             /\ lastResponse'.id \notin assigned
             /\ \A s \in remoteStore : s \in remoteStore']_vars

\* C23: after any sequence of live ingests, forced inserts and imports
\* every stored tracking is in normal form: it holds no whitespace, no
\* hyphen and no lower-case letter, and normalizing it gives it back.
Canonical(tracking) ==
    \A i \in 1..Len(tracking) :
       tracking[i] \notin {" ", "\n", "\t", "-", "a", "b", "c", "x"}

C23_StoredForm ==
    \A s \in scans :
       /\ Canonical(s.tracking)
       /\ normalizeTracking(s.tracking) = s.tracking

C23_Witness ==
    /\ forced
    /\ importResults.imported > 0
    /\ Cardinality(scans) = 2
    /\ \E s \in scans : s.tracking = <<"A", "B">>

\* C24: normalizeTracking is total and idempotent: for every string it
\* returns a string, the result holds no whitespace, no hyphen and no
\* lower-case letter, and normalizing the result gives the result.
C24_NormalizeIdempotent ==
    normalizedRef.done =>
       /\ DOMAIN normalizedRef.value = 1..Len(normalizedRef.value)
       /\ Len(normalizedRef.value) <= MaxLen
       /\ Canonical(normalizedRef.value)
       /\ normalizeTracking(normalizedRef.value) = normalizedRef.value

C24_Witness ==
    /\ normalizedRef.done
    /\ Len(rawInput) = MaxLen
    /\ normalizedRef.value = <<"A", "B">>

\* C25: the remote DELETE answers 200 with a deleted count that is the
\* number of records it removed (unknown ids are not counted), removes
\* every listed record that exists and leaves the other records alone.
C25_DeleteCountsRemoved ==
    [][\A ids \in SUBSET BlobKeys :
          FunctionDELETE(ids) =>
             /\ lastResponse'.status = 200
             /\ remoteStore' = {r \in remoteStore : r.id \notin ids}
             /\ lastResponse'.deleted =
                    Cardinality(remoteStore) - Cardinality(remoteStore')]_vars

\* C29: once a DELETE naming an id has answered 200, no record is stored
\* under that id until a POST creates one, whatever PUT requests on the id
\* run at the same time.
C29_DeleteIsFinal ==
    \A k \in answered : \A r \in remoteStore : r.id # k

\* C26: of the non-forced ingests of one code on one day, in whatever
\* order their steps run, at most one inserts: an ingest never adds a
\* scan whose tracking the store already holds for the day.
C26_AtMostOneInserts ==
    [][\A m \in ingests :
          addScanMutationAdds(m) =>
             checkDuplicateToday(scans, m.tracking, now) = <<>>]_vars

\* C27: 'Add anyway' on the duplicate toast of a code inserts a scan whose
\* tracking is that code, whatever other codes were attempted between the
\* duplicate report and the click (codes that normalize to the empty
\* string are left aside here).
C27_ForcedInsertTarget ==
    [][\A code \in toasts, text \in ManualTexts \cup {<<>>} :
          (/\ code # <<>>
           /\ lastAttemptedTrackingRef # <<>>
           /\ addDuplicateScan(code, text)) =>
             \E s \in scans' : s \notin scans /\ s.tracking = code]_vars

\* C28: when no remote request fails, after every completed store call
\* each local scan carries a remote id, the remote store holds under it a
\* record with the same tracking, timestamp and checked, and the remote
\* store holds no record that belongs to no local scan.
C28_Converges ==
    /\ \A s \in scans :
          /\ netlifyId[s.id] # 0
          /\ \E r \in remoteStore :
                /\ r.id = netlifyId[s.id]
                /\ r.tracking = s.tracking
                /\ r.timestamp = s.timestamp
                /\ r.checked = s.checked
    /\ \A r \in remoteStore : \E s \in scans : netlifyId[s.id] = r.id

\* C30: after any sequence of manual and camera ingests, forced inserts
\* and imports every stored scan has a tracking of at least one character,
\* also when the code handed in consists of hyphens and blanks only.
C30_TrackingNonEmpty ==
    \A s \in scans : s.tracking # <<>>

====
